---- MODULE Spec2Model ----
(***************************************************************************)
(* Traffic-Router-AI: the recovery agents and their per-service recovery   *)
(* state.  The repository holds several recovery agents; each is modelled  *)
(* as its own state machine over its own variables and has its own         *)
(* specification:                                                          *)
(*   Spec       agents/recovery-agent.py   TrafficRouterRecoveryAgent      *)
(*   SpecInterrupt  the same loop, with a KeyboardInterrupt at any point   *)
(*   SpecHang       the same loop, with a strategy subprocess that hangs   *)
(*   SpecNotify     the same loop, with the delivery of the notification   *)
(*   SpecIdle       the same loop, with the task _idle_testing_loop        *)
(*   SpecV2     build-.../agents/enhanced_recovery_agent_v2.py             *)
(*   SpecV2Tasks    the v2 coroutines: the loop, operator commands, stop() *)
(*   SpecEnh    build-.../agents/enhanced_recovery_agent.py (lines 266-718)*)
(*   SpecEnhRecovery  the same agent, with _perform_automated_recovery     *)
(*   SpecSimple agents/simple-recovery-agent.py                            *)
(*   SpecBridge build-.../lib/mcp-ai-agent-integration.py, the connections *)
(* The memory ledger, lib/memory-manager.py MarkdownMemoryManager, has its *)
(* own variables and six specifications:                                   *)
(*   SpecRelevance  _calculate_relevance applied to bounded inputs         *)
(*   SpecImportance _determine_importance applied to bounded inputs        *)
(*   SpecSearch     one caller at a time: appends, restarts, searches      *)
(*   SpecLedger     one caller at a time: appends, sweeps, restarts        *)
(*   SpecWriters    update_memory coroutines running at once               *)
(*   SpecStartup    update_memory while the _load_index task is running    *)
(*                                                                         *)
(* Time is the wall clock in seconds.  It advances in the sleep that ends  *)
(* a monitoring cycle (and, for an agent whose loop is not running, while  *)
(* the agent is idle); the time a probe or a strategy takes is not         *)
(* modelled (a handler reads the clock once and runs to completion).       *)
(*                                                                         *)
(* recovery-agent.py tests self.omnara_agent, an attribute the file never  *)
(* assigns (it assigns omnara_client).  The model takes omnara_agent as an *)
(* absent collaborator (falsy), so the Omnara log/request_input calls are  *)
(* not part of any action.                                                 *)
(***************************************************************************)
EXTENDS Integers, Sequences, FiniteSets, TLC

VARIABLES
    clock,              \* datetime.now() / time.time(), seconds
    pc,                 \* index in ServiceOrder of the next service the cycle checks
    services_status,    \* recovery-agent.py: self.services_status
    recovery_attempts,  \* recovery-agent.py: self.recovery_attempts (a dict)
    v2_services,        \* enhanced_recovery_agent_v2.py: self.services
    mcp_integration,    \* enhanced_recovery_agent_v2.py: self.mcp_integration is set
    enh_services,       \* enhanced_recovery_agent.py: self.services
    recovery_cooldowns, \* enhanced_recovery_agent.py: self.recovery_cooldowns
    last_run,           \* observation: what the most recent handler did
    escalated,          \* observation: services the agent has escalated
    streak,             \* observation: failing probes in a row inside one window
    attempted_at,       \* observation: the times of a service's recovery attempts
    running,            \* enhanced_recovery_agent_v2.py: self.running
    in_flight,          \* the restart_service call each coroutine is suspended in
    simple_status,      \* simple-recovery-agent.py: self.services_status
    simple_attempts,    \* simple-recovery-agent.py: self.recovery_attempts
    connection_status,  \* mcp-ai-agent-integration.py: self.connection_status
    reconnect_tasks,    \* mcp-ai-agent-integration.py: self.reconnect_tasks
    reconnections,      \* observation: the delays of the reconnections since a failure
    since_activity,     \* recovery-agent.py: time.time() - self.last_traffic_time
    idle_testing_active, \* recovery-agent.py: self.idle_testing_active
    tests_run,          \* observation: start_idle_testing has run its tests
    no_traffic_for,     \* observation: how long the system has carried no traffic
    next_test_in,       \* the time left of the sleep of _idle_testing_loop
    call,               \* observation: the most recent call of a ledger function
    ledger_now,         \* memory-manager.py: datetime.now(), in ticks
    files,              \* memory-manager.py: the entity files, entity -> text
    index_file,         \* memory-manager.py: index.json
    memory_index,       \* memory-manager.py: self.memory_index
    entity_stats,       \* memory-manager.py: self.entity_stats
    loading,            \* memory-manager.py: the _load_index task of __init__ has not run yet
    tasks,              \* memory-manager.py: the update_memory coroutines in flight
    contended,          \* observation: the entities two coroutines have written at once
    loader,             \* the _load_index task __init__ created: where it stands
    acked               \* observation: the entries of the update_memory calls that returned

ra_vars == <<services_status, recovery_attempts, escalated, streak>>
v2_vars == <<v2_services, mcp_integration, attempted_at>>
enh_vars == <<enh_services, recovery_cooldowns>>

simple_vars == <<simple_status, simple_attempts>>

bridge_vars == <<connection_status, reconnect_tasks, reconnections>>

idle_vars == <<since_activity, idle_testing_active, tests_run, no_traffic_for, next_test_in>>

task_vars == <<running, in_flight, simple_vars, bridge_vars, idle_vars>>

agent_vars == <<clock, pc, ra_vars, v2_vars, enh_vars, task_vars, last_run>>
writer_vars == <<tasks, contended, loader>>
mem_vars == <<call, ledger_now, files, index_file, memory_index, entity_stats, loading,
              writer_vars, acked>>

vars == <<agent_vars, mem_vars>>

-----------------------------------------------------------------------------
(* Configuration and bounds *)

\* config["services"], in iteration order: the first two services of the
\* default configuration of the enhanced agents
ServiceOrder == <<"web", "ai-proxy">>
Services == {ServiceOrder[i] : i \in 1..Len(ServiceOrder)}

max_recovery_attempts == 3
recovery_cooldown == 300

\* config["monitoring"]["check_interval"]: a configured value
check_interval == 150
\* number of monitoring cycles explored
MaxCycles == 4

StartTime == recovery_cooldown + check_interval
MaxTime == StartTime + MaxCycles * check_interval

\* what a health request can come back with
ProbeOutcomes ==
    { [kind |-> "http", code |-> 200],
      [kind |-> "http", code |-> 500],
      [kind |-> "timeout", code |-> 0],
      [kind |-> "refused", code |-> 0] }

Min(a, b) == IF a < b THEN a ELSE b

\* d[k] = v, the key added when missing (a Python dict assignment)
DictSet(d, k, v) == [x \in (DOMAIN d) \cup {k} |-> IF x = k THEN v ELSE d[x]]

EmptyDict == [x \in {} |-> 0]

\* last_run when no handler has run since the cycle began
NoRun == [agent |-> "none", op |-> "none", service |-> "none",
          outcome |-> [kind |-> "none", code |-> 0], status |-> "none",
          error |-> <<>>, strategies |-> <<>>, escalated |-> FALSE,
          reset |-> FALSE, in_window |-> FALSE, was_escalated |-> FALSE,
          before |-> 0, after |-> 0,
          eligible |-> {}, called |-> {}, raised |-> {}, recorded |-> {},
          unfinished |-> "none", events |-> <<>>,
          notification |-> [outcome |-> "none", returns |-> TRUE, logged |-> FALSE],
          memory |-> [written |-> <<>>, failed |-> <<>>, skipped |-> <<>>,
                      logged |-> FALSE]]

-----------------------------------------------------------------------------
(* agents/recovery-agent.py : TrafficRouterRecoveryAgent *)

\* the error text _handle_service_failure is given: f"HTTP {status_code}", or
\* the network-error prefix followed by the text of the exception
FailureMessage(outcome) ==
    IF outcome.kind = "http" THEN <<"HTTP", outcome.code>>
    ELSE <<"network error", outcome.kind>>

\* _check_service_health: the entry written to services_status
CheckResult(outcome) ==
    IF outcome.kind = "http" /\ outcome.code = 200
    THEN [status |-> "healthy", error |-> <<>>]
    ELSE [status |-> "failed", error |-> FailureMessage(outcome)]

recovery_strategies_reordered ==
    << "restart_process", "restart_docker_container",
       "full_service_restart", "system_cleanup_and_restart" >>

\* _attempt_service_recovery: the list recovery_strategies
recovery_strategies ==
    << "restart_docker_container", "restart_process",
       "full_service_restart", "system_cleanup_and_restart" >>

\* what the strategies return when they are run: result[i] for strategy i.
\* Only the results up to the first success are ever looked at.
StrategyResults ==
    { r \in [1..Len(recovery_strategies) -> BOOLEAN] :
        \A i, j \in DOMAIN r : (i < j /\ r[i]) => ~r[j] }

RECURSIVE RunStrategiesNoReturn(_, _, _)
RunStrategiesNoReturn(strategies, result, i) ==
    IF i > Len(strategies) THEN <<>>
    ELSE << [strategy |-> strategies[i], success |-> result[i]] >>
         \o RunStrategiesNoReturn(strategies, result, i + 1)

\* _attempt_service_recovery, the loop
\*   for strategy in recovery_strategies: success = await strategy(...)
\*                                        if success: return
\* from strategy i on; gives the strategies run with what each returned
RECURSIVE RunStrategies(_, _, _)
RunStrategies(strategies, result, i) ==
    IF i > Len(strategies) THEN <<>>
    ELSE IF result[i]
         THEN << [strategy |-> strategies[i], success |-> TRUE] >>
         ELSE << [strategy |-> strategies[i], success |-> FALSE] >>
              \o RunStrategies(strategies, result, i + 1)

Succeeded(tried) == \E i \in 1..Len(tried) : tried[i].success

AttemptsOf(attempts, s) == IF s \in DOMAIN attempts THEN attempts[s].attempts ELSE 0

\* now - last_attempt < timedelta(seconds=self.recovery_cooldown)
InWindow(attempts, s, now) ==
    s \in DOMAIN attempts /\ now - attempts[s].last_attempt < recovery_cooldown

AttemptServiceRecoveryNoLimit(attempts, s, now, result) ==
    LET count == IF InWindow(attempts, s, now) THEN attempts[s].attempts ELSE 0
        tried == RunStrategies(recovery_strategies, result, 1)
    IN  [attempts |-> DictSet(attempts, s,
                         [last_attempt |-> now, attempts |-> count + 1]),
         strategies |-> tried, escalated |-> ~Succeeded(tried),
         reset |-> s \in DOMAIN attempts /\ ~InWindow(attempts, s, now)]

AttemptServiceRecoveryNextTier(attempts, s, now, result) ==
    LET limit == InWindow(attempts, s, now)
                 /\ attempts[s].attempts >= max_recovery_attempts
        count == IF InWindow(attempts, s, now) THEN attempts[s].attempts ELSE 0
        tried == RunStrategies(recovery_strategies, result, count + 1)
    IN  IF limit
        THEN [attempts |-> attempts, strategies |-> <<>>,
              escalated |-> TRUE, reset |-> FALSE]
        ELSE [attempts |-> DictSet(attempts, s,
                              [last_attempt |-> now, attempts |-> count + 1]),
              strategies |-> tried, escalated |-> ~Succeeded(tried),
              reset |-> s \in DOMAIN attempts /\ ~InWindow(attempts, s, now)]

AttemptServiceRecoverySticky(attempts, s, now, result) ==
    LET limit == s \in DOMAIN attempts
                 /\ attempts[s].attempts >= max_recovery_attempts
        count == IF InWindow(attempts, s, now) THEN attempts[s].attempts ELSE 0
        tried == RunStrategies(recovery_strategies, result, 1)
    IN  IF limit
        THEN [attempts |-> attempts, strategies |-> <<>>,
              escalated |-> TRUE, reset |-> FALSE]
        ELSE [attempts |-> DictSet(attempts, s,
                              [last_attempt |-> now, attempts |-> count + 1]),
              strategies |-> tried, escalated |-> ~Succeeded(tried),
              reset |-> s \in DOMAIN attempts /\ ~InWindow(attempts, s, now)]

\* _attempt_service_recovery(service_name) at time now: the new
\* recovery_attempts, the strategies run, whether _escalate_failure was called
\* and whether the counter was reset because the cooldown had passed
AttemptServiceRecovery(attempts, s, now, result) ==
    LET limit == InWindow(attempts, s, now)
                 /\ attempts[s].attempts >= max_recovery_attempts
        count == IF InWindow(attempts, s, now) THEN attempts[s].attempts ELSE 0
        tried == RunStrategies(recovery_strategies, result, 1)
    IN  IF limit
        THEN [attempts |-> attempts, strategies |-> <<>>,
              escalated |-> TRUE, reset |-> FALSE]
        ELSE [attempts |-> DictSet(attempts, s,
                              [last_attempt |-> now, attempts |-> count + 1]),
              strategies |-> tried, escalated |-> ~Succeeded(tried),
              reset |-> s \in DOMAIN attempts /\ ~InWindow(attempts, s, now)]

\* what _attempt_service_recovery does towards the outside, in order: the
\* strategies it runs and, when it ends in _escalate_failure, the call of
\* _send_critical_notification that ends _escalate_failure
HandlerEvents(rec) ==
    [i \in 1..Len(rec.strategies) |-> rec.strategies[i].strategy]
        \o (IF rec.escalated THEN <<"notify">> ELSE <<>>)

HealthyProbeResets(attempts, s) ==
    [x \in (DOMAIN attempts) \ {s} |-> attempts[x]]

\* _check_service_health, status 200: recovery_attempts is not touched
HealthyProbe(attempts, s) == attempts

\* the run of failing probes of s that began with a fresh counter and has
\* stayed inside the cooldown window: its length after this probe (0: no such
\* run, a healthy probe or an earlier incident came in between)
NextStreak(old, attempts, s, now, failed) ==
    IF ~failed THEN 0
    ELSE IF ~InWindow(attempts, s, now) THEN 1
    ELSE IF old > 0 THEN old + 1
    ELSE 0

\* what the POST of _send_critical_notification can come to: the message is
\* accepted, the API answers with an error status, the request raises (no
\* route, connection refused), or no answer ever comes
Deliveries == {"delivered", "rejected", "raises", "no answer"}

\* _send_critical_notification with a bot token configured: requests.post is
\* called without a timeout and its answer is not looked at; only an
\* exception is caught, and logged
SendCriticalNotification(delivery) ==
    [outcome |-> delivery,
     returns |-> delivery # "no answer",
     logged |-> delivery = "raises"]

\* _check_service_health(service_name, service_config), the failure path
\* (_handle_service_failure, _attempt_service_recovery, _escalate_failure and
\* its notification) included
CheckServiceHealthNotifying(s, outcome, result, delivery) ==
    LET res == CheckResult(outcome)
        rec == AttemptServiceRecovery(recovery_attempts, s, clock, result)
    IN  /\ services_status' = DictSet(services_status, s, res)
        /\ streak' = [streak EXCEPT ![s] =
                NextStreak(streak[s], recovery_attempts, s, clock,
                           res.status # "healthy")]
        /\ IF res.status = "healthy"
           THEN /\ recovery_attempts' = HealthyProbe(recovery_attempts, s)
                /\ UNCHANGED escalated
                /\ last_run' = [NoRun EXCEPT !.agent = "ra", !.op = "probe",
                      !.service = s, !.outcome = outcome, !.status = "healthy",
                      !.in_window = InWindow(recovery_attempts, s, clock),
                      !.was_escalated = (s \in escalated),
                      !.before = AttemptsOf(recovery_attempts, s),
                      !.after = AttemptsOf(recovery_attempts', s)]
           ELSE /\ recovery_attempts' = rec.attempts
                /\ escalated' = IF rec.escalated THEN escalated \cup {s}
                                ELSE escalated
                /\ last_run' = [NoRun EXCEPT !.agent = "ra", !.op = "probe",
                      !.service = s, !.outcome = outcome,
                      !.status = "failed", !.error = res.error,
                      !.strategies = rec.strategies,
                      !.events = HandlerEvents(rec),
                      !.escalated = rec.escalated, !.reset = rec.reset,
                      !.in_window = InWindow(recovery_attempts, s, clock),
                      !.was_escalated = (s \in escalated),
                      !.before = AttemptsOf(recovery_attempts, s),
                      !.after = AttemptsOf(rec.attempts, s),
                      !.notification =
                          IF rec.escalated
                          THEN SendCriticalNotification(delivery)
                          ELSE NoRun.notification,
                      !.unfinished =
                          IF rec.escalated /\ delivery = "no answer"
                          THEN "notify" ELSE "none"]

\* the same when the notification, if any, is delivered
CheckServiceHealth(s, outcome, result) ==
    CheckServiceHealthNotifying(s, outcome, result, "delivered")

\* _monitoring_cycle: one iteration of the loop over config["services"]
MonitorService ==
    /\ pc \in 1..Len(ServiceOrder)
    /\ \E outcome \in ProbeOutcomes, result \in StrategyResults :
          CheckServiceHealth(ServiceOrder[pc], outcome, result)
    /\ pc' = pc + 1
    /\ UNCHANGED <<clock, v2_vars, enh_vars>>
    /\ UNCHANGED <<task_vars, mem_vars>>

\* _update_system_memory: the ledger entries it writes, one for each service
\* of services_status from the i-th on, holding the status of the service (and
\* its port, response time and time of check)
RECURSIVE SystemMemoryEntries(_, _)
SystemMemoryEntries(status, i) ==
    IF i > Len(ServiceOrder) THEN <<>>
    ELSE (IF ServiceOrder[i] \in DOMAIN status
          THEN << [entry |-> "observation", service |-> ServiceOrder[i],
                   status |-> status[ServiceOrder[i]].status] >>
          ELSE <<>>)
         \o SystemMemoryEntries(status, i + 1)

\* _monitoring_cycle after the probes, _update_system_memory, the only ledger
\* write of the cycle, and start_monitoring: asyncio.sleep(check_interval)
Sleep ==
    /\ pc = Len(ServiceOrder) + 1
    /\ clock + check_interval <= MaxTime
    /\ clock' = clock + check_interval
    /\ pc' = 1
    /\ last_run' = [NoRun EXCEPT !.agent = "ra", !.op = "memory",
                                 !.events = SystemMemoryEntries(services_status, 1)]
    /\ UNCHANGED <<ra_vars, v2_vars, enh_vars>>
    /\ UNCHANGED <<task_vars, mem_vars>>

\* the coroutines that can be suspended in a restart at once: the monitoring
\* loop and two process_command calls
Callers == {"loop", "cmd1", "cmd2"}

\* the coroutine is not inside restart_service
NoRestart == "none"

\* no ledger function has been called
NoCall == [fn |-> "none"]

\* mcp-ai-agent-integration.py: MCPServerConfig and the servers of
\* .kiro/settings/mcp.json the model connects to
retry_attempts == 3
retry_delay == 5
Servers == {"traffic-router-mcp", "memory-mcp"}

\* recovery-agent.py, IdleTestingManager.__init__: 60 * 60 and 30 * 60 seconds
idle_threshold == 3600
test_interval == 1800

\* the state after construction (__init__ of each agent)
AgentsConstructed ==
    /\ services_status = EmptyDict
    /\ recovery_attempts = EmptyDict
    /\ v2_services = EmptyDict
    /\ mcp_integration = FALSE
    /\ enh_services = EmptyDict
    /\ recovery_cooldowns = EmptyDict
    /\ last_run = NoRun
    /\ escalated = {}
    /\ streak = [s \in Services |-> 0]
    /\ attempted_at = [s \in Services |-> <<>>]
    /\ running = FALSE
    /\ in_flight = [c \in Callers |-> NoRestart]
    /\ simple_status = EmptyDict
    /\ simple_attempts = EmptyDict
    /\ connection_status = EmptyDict
    /\ reconnect_tasks = EmptyDict
    /\ reconnections = [s \in Servers |-> <<>>]
    /\ since_activity = 0
    /\ idle_testing_active = FALSE
    /\ tests_run = FALSE
    /\ no_traffic_for = 0
    /\ next_test_in = 0

\* index.json as _save_index writes it
SavedIndex(index, stats) ==
    [state |-> "valid", memory_index |-> index, entity_stats |-> stats]

\* there is no index.json
NoIndexFile == [state |-> "absent"]

\* the coroutines that can be in flight at once, and one that is not running
Tasks == {1, 2}

IdleTask == [pc |-> "idle"]

\* the _load_index task as asyncio.create_task leaves it: created, not yet run
LoaderReady == [pc |-> "ready"]

\* an empty memory directory and the first instance: __init__ has made the
\* empty dicts and created the _load_index task, which has not run
LedgerConstructed ==
    /\ ledger_now = 0
    /\ files = EmptyDict
    /\ memory_index = <<>>
    /\ entity_stats = EmptyDict
    /\ index_file = NoIndexFile
    /\ loading = TRUE
    /\ tasks = [t \in Tasks |-> IdleTask]
    /\ contended = {}
    /\ loader = LoaderReady
    /\ acked = <<>>

Constructed ==
    /\ clock = StartTime
    /\ AgentsConstructed
    /\ LedgerConstructed
    /\ call = NoCall

\* recovery-agent.py: constructed, start_monitoring entered
Init == Constructed /\ pc = 1

Next == MonitorService \/ Sleep

Spec == Init /\ [][Next]_vars

\* the loop of start_monitoring has been left
Stopped == Len(ServiceOrder) + 2

\* _check_service_health for the service the cycle is at, up to a recovery
\* strategy that is started and never gives control back to the loop: the
\* probe has failed, the attempt is counted, the strategies before it have
\* returned False.  candidates are the positions in recovery_strategies of
\* the strategies this can happen to.
LeftInStrategy(op, candidates) ==
    /\ pc \in 1..Len(ServiceOrder)
    /\ \E outcome \in ProbeOutcomes :
          LET s == ServiceOrder[pc]
              res == CheckResult(outcome)
              result == [i \in 1..Len(recovery_strategies) |-> FALSE]
              rec == AttemptServiceRecovery(recovery_attempts, s, clock, result)
          IN  /\ res.status = "failed"
              /\ \E k \in candidates \cap (1..Len(rec.strategies)) :
                    last_run' = [NoRun EXCEPT !.agent = "ra", !.op = op,
                        !.service = s, !.outcome = outcome,
                        !.status = "failed", !.error = res.error,
                        !.strategies = SubSeq(rec.strategies, 1, k - 1),
                        !.unfinished = rec.strategies[k].strategy,
                        !.before = AttemptsOf(recovery_attempts, s),
                        !.after = AttemptsOf(rec.attempts, s)]
              /\ services_status' = DictSet(services_status, s, res)
              /\ recovery_attempts' = rec.attempts
              /\ UNCHANGED <<escalated, streak>>

\* start_monitoring, `except KeyboardInterrupt: break`: the operator's Ctrl-C
\* is the only way the loop ends.  The interrupt is raised where the program
\* is: in the sleep between two cycles, or inside a recovery strategy of the
\* service being checked.  A strategy catches Exception, which KeyboardInterrupt
\* (like the CancelledError asyncio.run turns the signal into) is not, so the
\* strategy is left where it stands and the handlers above it are unwound.
KeyboardInterrupt ==
    /\ \/ /\ pc = Len(ServiceOrder) + 1
          /\ last_run' = [NoRun EXCEPT !.agent = "ra", !.op = "stopped"]
          /\ UNCHANGED ra_vars
       \/ LeftInStrategy("stopped", 1..Len(recovery_strategies))
    /\ pc' = Stopped
    /\ UNCHANGED <<clock, v2_vars, enh_vars>>
    /\ UNCHANGED <<task_vars, mem_vars>>

NextInterrupt == MonitorService \/ Sleep \/ KeyboardInterrupt

SpecInterrupt == Init /\ [][NextInterrupt]_vars

\* the strategies that run a command with no timeout: subprocess.run(...,
\* shell=True) in _full_service_restart and _system_cleanup_and_restart.  The
\* probe has requests.get(timeout=...), the container restart the timeout of
\* the docker client, and _restart_process does not wait for its process.
WithoutTimeout ==
    { i \in 1..Len(recovery_strategies) :
        recovery_strategies[i] \in {"full_service_restart",
                                    "system_cleanup_and_restart"} }

\* the loop is inside a call that does not return
Hung == Len(ServiceOrder) + 3

\* _check_service_health when a command of a recovery strategy never ends:
\* subprocess.run waits for it, in the thread of the event loop
StrategyHangs ==
    /\ LeftInStrategy("hung", WithoutTimeout)
    /\ pc' = Hung
    /\ UNCHANGED <<clock, v2_vars, enh_vars>>
    /\ UNCHANGED <<task_vars, mem_vars>>

NextHang == MonitorService \/ Sleep \/ StrategyHangs

\* the event loop runs a coroutine that can run
SpecHang == Init /\ [][NextHang]_vars /\ WF_vars(NextHang)

\* the strategies an escalation follows have all returned False (an
\* escalation for the attempt limit runs none)
AllFailed == [i \in 1..Len(recovery_strategies) |-> FALSE]

\* _monitoring_cycle, one iteration of the loop, whatever becomes of the
\* notification of an escalation as long as requests.post returns or raises
MonitorServiceNotifying ==
    /\ pc \in 1..Len(ServiceOrder)
    /\ \E outcome \in ProbeOutcomes, result \in StrategyResults,
          delivery \in Deliveries \ {"no answer"} :
          /\ (delivery # "delivered" => result = AllFailed)
          /\ CheckServiceHealthNotifying(ServiceOrder[pc], outcome, result, delivery)
          /\ (~last_run'.escalated => delivery = "delivered")
    /\ pc' = pc + 1
    /\ UNCHANGED <<clock, v2_vars, enh_vars>>
    /\ UNCHANGED <<task_vars, mem_vars>>

\* the loop is inside requests.post
Blocked == Len(ServiceOrder) + 4

\* _check_service_health when the notification of the escalation gets no
\* answer: requests.post has no timeout and waits in the thread of the event
\* loop
NotificationUnanswered ==
    /\ pc \in 1..Len(ServiceOrder)
    /\ \E outcome \in ProbeOutcomes :
          /\ CheckServiceHealthNotifying(ServiceOrder[pc], outcome, AllFailed,
                                         "no answer")
          /\ last_run'.escalated
    /\ pc' = Blocked
    /\ UNCHANGED <<clock, v2_vars, enh_vars>>
    /\ UNCHANGED <<task_vars, mem_vars>>

NextNotify == MonitorServiceNotifying \/ Sleep \/ NotificationUnanswered

\* the event loop runs a coroutine that can run
SpecNotify == Init /\ [][NextNotify]_vars /\ WF_vars(NextNotify)

-----------------------------------------------------------------------------
(* build-20250923-155853/agents/enhanced_recovery_agent_v2.py :            *)
(* EnhancedRecoveryAgent (v2)                                              *)

\* config['monitoring']['recovery_attempts'] and ['cooldown_period'] (the same
\* keys and defaults in enhanced_recovery_agent.py)
config_recovery_attempts == 3
cooldown_period == 300

\* what system_status['services'] holds for one service: status and error
McpReports ==
    { [status |-> "healthy", error |-> <<>>],
      [status |-> "unhealthy", error |-> <<"reported">>] }

V2CheckResultDegraded(outcome) ==
    IF outcome.kind = "http" /\ outcome.code = 200
    THEN [status |-> "healthy", error |-> <<>>]
    ELSE IF outcome.kind = "http"
    THEN [status |-> "degraded", error |-> <<"HTTP", outcome.code>>]
    ELSE [status |-> "unhealthy", error |-> <<outcome.kind>>]

\* _check_service_health: status and error_message of the ServiceHealth built
\* on status 200, on another status, on asyncio.TimeoutError and on any other
\* exception (str(e), here the kind of the failure)
V2CheckResult(outcome) ==
    IF outcome.kind = "http" /\ outcome.code = 200
    THEN [status |-> "healthy", error |-> <<>>]
    ELSE IF outcome.kind = "http"
    THEN [status |-> "unhealthy", error |-> <<"HTTP", outcome.code>>]
    ELSE IF outcome.kind = "timeout"
    THEN [status |-> "unhealthy", error |-> <<"Timeout">>]
    ELSE [status |-> "unhealthy", error |-> <<outcome.kind>>]

\* self.services.get(name, ServiceHealth(name, 'unknown', 0, now)).recovery_attempts
V2CarriedAttempts(services, s) ==
    IF s \in DOMAIN services THEN services[s].recovery_attempts ELSE 0

\* the ServiceHealth a probe or a status report stores: recovery_attempts is
\* carried over, last_recovery is not passed and takes its default, None
V2ServiceHealth(services, s, res) ==
    [status |-> res.status, error_message |-> res.error,
     recovery_attempts |-> V2CarriedAttempts(services, s),
     last_recovery |-> <<>>]

\* the cooldown test of _perform_automated_recovery
V2InCooldown(health, now) ==
    /\ health.last_recovery # <<>>
    /\ now - health.last_recovery[1] < cooldown_period

\* _perform_automated_recovery, the body of the loop for one service of
\* self.services: the ServiceHealth afterwards, whether a recovery was tried
\* and whether its outcome was recorded (mcp_integration.update_memory of
\* 'recovery_actions'; _legacy_service_recovery records nothing)
V2RecoverService(health, now, mcp, success) ==
    IF health.status # "unhealthy"
    THEN [health |-> health, attempted |-> FALSE, recorded |-> FALSE]
    ELSE IF V2InCooldown(health, now)
    THEN [health |-> health, attempted |-> FALSE, recorded |-> FALSE]
    ELSE IF health.recovery_attempts >= config_recovery_attempts
    THEN [health |-> health, attempted |-> FALSE, recorded |-> FALSE]
    ELSE IF mcp /\ success
    THEN [health |-> [health EXCEPT !.recovery_attempts = @ + 1,
                                    !.last_recovery = <<now>>,
                                    !.status = "recovering"],
          attempted |-> TRUE, recorded |-> TRUE]
    ELSE IF mcp
    THEN [health |-> [health EXCEPT !.recovery_attempts = @ + 1],
          attempted |-> TRUE, recorded |-> TRUE]
    ELSE \* _legacy_service_recovery
         [health |-> [health EXCEPT !.recovery_attempts = @ + 1,
                                    !.last_recovery = <<now>>],
          attempted |-> TRUE, recorded |-> FALSE]

\* start_monitoring: running = True, initialize() sets mcp_integration when the
\* MCP integration module could be imported
V2StartMonitoring ==
    /\ pc = 0
    /\ \E available \in BOOLEAN : mcp_integration' = available
    /\ pc' = 1
    /\ last_run' = NoRun
    /\ UNCHANGED <<clock, ra_vars, enh_vars, v2_services, attempted_at>>
    /\ UNCHANGED <<task_vars, mem_vars>>

\* _legacy_monitoring_cycle: one iteration of the loop over config['services']
V2CheckServiceHealth ==
    /\ ~mcp_integration
    /\ pc \in 1..Len(ServiceOrder)
    /\ \E outcome \in ProbeOutcomes :
          LET s == ServiceOrder[pc]
              health == V2ServiceHealth(v2_services, s, V2CheckResult(outcome))
          IN  /\ v2_services' = DictSet(v2_services, s, health)
              /\ last_run' = [NoRun EXCEPT !.agent = "v2", !.op = "probe",
                    !.service = s, !.outcome = outcome,
                    !.status = health.status, !.error = health.error_message,
                    !.before = V2CarriedAttempts(v2_services, s),
                    !.after = health.recovery_attempts]
    /\ pc' = pc + 1
    /\ UNCHANGED <<clock, ra_vars, enh_vars, mcp_integration, attempted_at>>
    /\ UNCHANGED <<task_vars, mem_vars>>

\* _process_mcp_system_status: every service of system_status['services'] gets
\* a new ServiceHealth
V2ProcessMcpSystemStatus ==
    /\ mcp_integration
    /\ pc = 1
    /\ \E reported \in SUBSET Services :
       \E report \in [reported -> McpReports] :
          /\ v2_services' =
                [s \in (DOMAIN v2_services) \cup reported |->
                    IF s \in reported
                    THEN V2ServiceHealth(v2_services, s, report[s])
                    ELSE v2_services[s]]
          /\ last_run' = [NoRun EXCEPT !.agent = "v2", !.op = "mcp_status"]
    /\ pc' = Len(ServiceOrder) + 1
    /\ UNCHANGED <<clock, ra_vars, enh_vars, mcp_integration, attempted_at>>
    /\ UNCHANGED <<task_vars, mem_vars>>

\* what mcp_integration.restart_service does with the answer of the tool
\* server: returns True, returns False, or raises (an answer whose 'content' is
\* an empty list or holds no text: IndexError and TypeError are not among the
\* exceptions restart_service catches)
RestartOutcomes == {"success", "failure", "raises"}

\* whether the loop body reaches the restart of a service
V2Eligible(health, now) ==
    /\ health.status = "unhealthy"
    /\ ~V2InCooldown(health, now)
    /\ health.recovery_attempts < config_recovery_attempts

\* _perform_automated_recovery, the loop over the unhealthy services from the
\* i-th on, in the order of self.services.  The try statement is around the
\* whole loop: an exception raised for one service ends the loop.
RECURSIVE V2RecoveryLoop(_, _, _, _, _)
V2RecoveryLoop(services, now, mcp, outcome, i) ==
    IF i > Len(ServiceOrder)
    THEN [services |-> services, called |-> {}, raised |-> {}, recorded |-> {}]
    ELSE LET s == ServiceOrder[i]
         IN  IF s \notin DOMAIN services \/ ~V2Eligible(services[s], now)
             THEN V2RecoveryLoop(services, now, mcp, outcome, i + 1)
             ELSE IF mcp /\ outcome[s] = "raises"
             THEN [services |-> services, called |-> {s}, raised |-> {s},
                   recorded |-> {}]
             ELSE LET rec == V2RecoverService(services[s], now, mcp,
                                              outcome[s] = "success")
                      rest == V2RecoveryLoop(DictSet(services, s, rec.health),
                                             now, mcp, outcome, i + 1)
                  IN  [rest EXCEPT !.called = @ \cup {s},
                                   !.recorded = IF rec.recorded THEN @ \cup {s}
                                                ELSE @]

\* the ledger entries _perform_automated_recovery writes, in order: one per
\* recovery made through the tool bridge, holding the outcome of the restart
\* ('Successfully restarted service ...' or 'Failed to restart service ...')
RECURSIVE V2RecoveryEntries(_, _)
V2RecoveryEntries(recorded, i) ==
    IF i > Len(ServiceOrder) THEN <<>>
    ELSE (IF ServiceOrder[i] \in recorded
          THEN << [entry |-> "outcome", service |-> ServiceOrder[i]] >>
          ELSE <<>>)
         \o V2RecoveryEntries(recorded, i + 1)

\* _perform_automated_recovery
V2PerformAutomatedRecovery ==
    /\ pc = Len(ServiceOrder) + 1
    /\ \E outcome \in [Services -> RestartOutcomes] :
          LET eligible == { s \in DOMAIN v2_services :
                              V2Eligible(v2_services[s], clock) }
              loop == V2RecoveryLoop(v2_services, clock, mcp_integration,
                                     outcome, 1)
          IN  /\ (~mcp_integration => \A s \in Services : outcome[s] = "success")
              /\ \A s \in Services \ loop.called : outcome[s] = "success"
              /\ v2_services' = loop.services
              /\ attempted_at' =
                    [s \in Services |->
                        IF s \in loop.called \ loop.raised
                        THEN Append(attempted_at[s], clock)
                        ELSE attempted_at[s]]
              /\ last_run' = [NoRun EXCEPT !.agent = "v2", !.op = "recover",
                                           !.eligible = eligible,
                                           !.called = loop.called,
                                           !.raised = loop.raised,
                                           !.recorded = loop.recorded,
                                           !.events =
                                               V2RecoveryEntries(loop.recorded, 1)]
    /\ pc' = pc + 1
    /\ UNCHANGED <<clock, ra_vars, enh_vars, mcp_integration>>
    /\ UNCHANGED <<task_vars, mem_vars>>

HasHealthRecord(services, s) ==
    s \in DOMAIN services /\ services[s].status \in {"healthy", "unhealthy"}

RECURSIVE HealthRecords(_, _)
HealthRecords(services, i) ==
    IF i > Len(ServiceOrder) THEN <<>>
    ELSE (IF HasHealthRecord(services, ServiceOrder[i])
          THEN <<ServiceOrder[i]>> ELSE <<>>)
         \o HealthRecords(services, i + 1)

\* _update_local_memory: the records it appends to the ledger, in order: the
\* health of each service that is healthy or unhealthy, then the recovery
\* statistics when a recovery has been counted (system_metrics stays at 0.0
\* without the tool bridge and gives no record)
LocalMemoryRecords(services) ==
    HealthRecords(services, 1)
        \o (IF \E s \in DOMAIN services : services[s].recovery_attempts > 0
            THEN <<"recovery_stats">> ELSE <<>>)

\* _update_local_memory when the update_memory call number `failing` raises
\* (0: none does; update_memory logs and raises again).  The try statement is
\* around all the calls: the exception is logged and the calls after the
\* failing one are not made.
UpdateLocalMemory(records, failing) ==
    IF failing = 0
    THEN [written |-> records, failed |-> <<>>, skipped |-> <<>>, logged |-> FALSE]
    ELSE [written |-> SubSeq(records, 1, failing - 1),
          failed |-> <<records[failing]>>,
          skipped |-> SubSeq(records, failing + 1, Len(records)),
          logged |-> TRUE]

\* the ledger entries of the records _update_local_memory has written
LocalMemoryEntries(written) ==
    [i \in 1..Len(written) |->
        IF written[i] \in Services
        THEN [entry |-> "observation", service |-> written[i]]
        ELSE [entry |-> "stats", service |-> "none"]]

\* _monitoring_cycle after the recovery: _update_local_memory; events holds
\* the ledger entries of the cycle so far, those of the recovery first
V2UpdateLocalMemory ==
    /\ pc = Len(ServiceOrder) + 2
    /\ LET records == LocalMemoryRecords(v2_services)
       IN  \E failing \in 0..Len(records) :
              LET memory == UpdateLocalMemory(records, failing)
              IN  last_run' = [NoRun EXCEPT !.agent = "v2", !.op = "memory",
                      !.memory = memory,
                      !.called = last_run.called \ last_run.raised,
                      !.events = last_run.events
                                     \o LocalMemoryEntries(memory.written)]
    /\ pc' = pc + 1
    /\ UNCHANGED <<clock, ra_vars, v2_vars, enh_vars>>
    /\ UNCHANGED <<task_vars, mem_vars>>

\* start_monitoring: asyncio.sleep(config['monitoring']['interval'])
V2Sleep ==
    /\ pc = Len(ServiceOrder) + 3
    /\ clock + check_interval <= MaxTime
    /\ clock' = clock + check_interval
    /\ pc' = 1
    /\ last_run' = NoRun
    /\ UNCHANGED <<ra_vars, v2_vars, enh_vars>>
    /\ UNCHANGED <<task_vars, mem_vars>>

\* enhanced_recovery_agent_v2.py: constructed, start_monitoring not yet called
InitV2 == Constructed /\ pc = 0

NextV2 ==
    \/ V2StartMonitoring
    \/ V2CheckServiceHealth
    \/ V2ProcessMcpSystemStatus
    \/ V2PerformAutomatedRecovery
    \/ V2UpdateLocalMemory
    \/ V2Sleep

SpecV2 == InitV2 /\ [][NextV2]_vars

-----------------------------------------------------------------------------
(* build-20250923-155853/agents/enhanced_recovery_agent.py, lines 266-718 : *)
(* EnhancedRecoveryAgent                                                    *)
(*                                                                          *)
(* _check_service_health ends with                                          *)
(*     self.memory.update_entity_memory(service_name, asdict(health))       *)
(* and update_entity_memory passes the dict to json.dumps.  The dict holds  *)
(* a ServiceStatus and a datetime, json.dumps raises TypeError, nothing on  *)
(* the way catches it before the except of start_monitoring, and the        *)
(* monitoring loop is over after the first probe of a run.  The commands of *)
(* execute_command stay available, and start_monitoring can be called anew. *)

\* manual recoveries explored for one service
AttemptCap == 5

EnhCheckResult(outcome) ==
    IF outcome.kind = "http" /\ outcome.code = 200
    THEN [status |-> "healthy", error |-> <<>>]
    ELSE IF outcome.kind = "http"
    THEN [status |-> "degraded", error |-> <<"HTTP", outcome.code>>]
    ELSE [status |-> "unhealthy", error |-> <<outcome.kind>>]

\* _check_service_health: the ServiceHealth built from the probe; the fields
\* recovery_attempts and last_recovery are not passed and take their defaults
EnhServiceHealth(services, s, res) ==
    [status |-> res.status, error_message |-> res.error,
     recovery_attempts |-> 0, last_recovery |-> <<>>]

\* _generate_recovery_plan: the actions of the plan
GenerateRecoveryPlan(health) ==
    IF health.status = "degraded" THEN <<"reconfigure", "restart">>
    ELSE IF health.recovery_attempts > 1 THEN <<"restart", "notify">>
    ELSE <<"restart">>

\* _recover_service, the loop over recovery_plan.actions from action i on:
\* _restart_service returns restart_ok, _reconfigure_service returns True,
\* a notification sets success; the loop breaks at the first success
RECURSIVE RunActions(_, _, _)
RunActions(actions, restart_ok, i) ==
    IF i > Len(actions) THEN <<>>
    ELSE LET ok == IF actions[i] = "restart" THEN restart_ok ELSE TRUE
         IN  IF ok THEN << [strategy |-> actions[i], success |-> TRUE] >>
             ELSE << [strategy |-> actions[i], success |-> FALSE] >>
                  \o RunActions(actions, restart_ok, i + 1)

\* _recover_service(service_name, health): the actions run, and the health
\* record afterwards
RecoverService(health, now, restart_ok) ==
    [health |-> [health EXCEPT !.recovery_attempts = @ + 1,
                               !.last_recovery = <<now>>],
     tried |-> RunActions(GenerateRecoveryPlan(health), restart_ok, 1)]

\* datetime.now() - last_recovery < cooldown_period
EnhInWindow(services, s, now) ==
    /\ s \in DOMAIN services
    /\ services[s].last_recovery # <<>>
    /\ now - services[s].last_recovery[1] < cooldown_period

EnhAttemptsOf(services, s) ==
    IF s \in DOMAIN services THEN services[s].recovery_attempts ELSE 0

\* start_monitoring: running = True and the loop is entered
EnhStartMonitoring ==
    /\ pc = 0
    /\ pc' = 1
    /\ last_run' = NoRun
    /\ UNCHANGED <<clock, ra_vars, v2_vars, enh_vars>>
    /\ UNCHANGED <<task_vars, mem_vars>>

\* _monitoring_cycle, one iteration of the loop over config['services']:
\* _check_service_health stores the new ServiceHealth, the memory update
\* raises and the monitoring loop ends
EnhCheckServiceHealth ==
    /\ pc \in 1..Len(ServiceOrder)
    /\ \E outcome \in ProbeOutcomes :
          LET s == ServiceOrder[pc]
              health == EnhServiceHealth(enh_services, s, EnhCheckResult(outcome))
          IN  /\ enh_services' = DictSet(enh_services, s, health)
              /\ last_run' = [NoRun EXCEPT !.agent = "enh", !.op = "probe",
                    !.service = s, !.outcome = outcome,
                    !.status = health.status, !.error = health.error_message,
                    !.in_window = EnhInWindow(enh_services, s, clock),
                    !.before = EnhAttemptsOf(enh_services, s),
                    !.after = health.recovery_attempts]
    /\ pc' = 0
    /\ UNCHANGED <<clock, ra_vars, v2_vars, recovery_cooldowns>>
    /\ UNCHANGED <<task_vars, mem_vars>>

\* execute_command('recover', [s]) : _cmd_recover
EnhCmdRecover ==
    /\ \E s \in Services, restart_ok \in BOOLEAN :
          IF s \in DOMAIN enh_services
          THEN LET health == enh_services[s]
                   rec == RecoverService(health, clock, restart_ok)
               IN  /\ health.recovery_attempts < AttemptCap
                   /\ (~restart_ok \/ \E i \in 1..Len(rec.tried) :
                                         rec.tried[i].strategy = "restart")
                   /\ enh_services' = DictSet(enh_services, s, rec.health)
                   /\ recovery_cooldowns' =
                         DictSet(recovery_cooldowns, <<s, health.status>>,
                                 clock + cooldown_period)
                   /\ last_run' = [NoRun EXCEPT !.agent = "enh",
                         !.op = "recover", !.service = s,
                         !.status = health.status,
                         !.strategies = rec.tried,
                         !.in_window = EnhInWindow(enh_services, s, clock),
                         !.before = health.recovery_attempts,
                         !.after = rec.health.recovery_attempts]
          ELSE /\ ~restart_ok
               /\ last_run' = [NoRun EXCEPT !.agent = "enh",
                     !.op = "recover", !.service = s, !.status = "not found"]
               /\ UNCHANGED enh_vars
    /\ UNCHANGED <<clock, pc, ra_vars, v2_vars>>
    /\ UNCHANGED <<task_vars, mem_vars>>

\* execute_command('restart', [s]) : _cmd_restart calls _restart_service
EnhCmdRestart ==
    /\ \E s \in Services, restart_ok \in BOOLEAN :
          last_run' = [NoRun EXCEPT !.agent = "enh", !.op = "restart",
                !.service = s,
                !.strategies = << [strategy |-> "restart", success |-> restart_ok] >>,
                !.before = EnhAttemptsOf(enh_services, s),
                !.after = EnhAttemptsOf(enh_services, s)]
    /\ UNCHANGED <<clock, pc, ra_vars, v2_vars, enh_vars>>
    /\ UNCHANGED <<task_vars, mem_vars>>

\* the monitoring loop is not running: time passes between two calls
EnhTimePasses ==
    /\ pc = 0
    /\ clock + check_interval <= MaxTime
    /\ clock' = clock + check_interval
    /\ last_run' = NoRun
    /\ UNCHANGED <<pc, ra_vars, v2_vars, enh_vars>>
    /\ UNCHANGED <<task_vars, mem_vars>>

\* enhanced_recovery_agent.py: constructed, start_monitoring not yet called
InitEnh == Constructed /\ pc = 0

NextEnh ==
    \/ EnhStartMonitoring
    \/ EnhCheckServiceHealth
    \/ EnhCmdRecover
    \/ EnhCmdRestart
    \/ EnhTimePasses

SpecEnh == InitEnh /\ [][NextEnh]_vars

-----------------------------------------------------------------------------
(* lib/memory-manager.py: MarkdownMemoryManager, the memory ledger          *)
(*                                                                         *)
(* A text (a Python str) is a sequence of atoms.  An atom is a piece of    *)
(* text the model does not look into: one character in the inputs of the   *)
(* scoring function, a word or a piece of markup in the entries of the     *)
(* ledger.  "x in y" is then "x is a contiguous run of the atoms of y",    *)
(* str.split() cuts a text at its atoms of whitespace and str.lower()      *)
(* maps every atom to its lower-case form.                                 *)

Whitespace == {" ", "\n"}

\* str.lower() of one atom
LowerAtom(a) ==
    CASE a = "A" -> "a"
      [] a = "B" -> "b"
      [] a = "FAILED" -> "failed"
      [] a = "Error" -> "error"
      [] OTHER -> a

\* str.lower()
Lower(text) == [i \in 1..Len(text) |-> LowerAtom(text[i])]

\* q in text
Contains(text, q) ==
    \E i \in 0..(Len(text) - Len(q)) : SubSeq(text, i + 1, i + Len(q)) = q

\* the end of the run of atoms that starts at position i and stops before
\* the first atom of the set `stops` (i - 1 when text[i] is one of them)
RECURSIVE RunUntil(_, _, _)
RunUntil(text, i, stops) ==
    IF i <= Len(text) /\ text[i] \notin stops THEN RunUntil(text, i + 1, stops) ELSE i - 1

\* the end of the run of atoms of the set that starts at position i (i - 1
\* when text[i] is not in the set)
RECURSIVE RunEnd(_, _, _)
RunEnd(text, i, atoms) ==
    IF i <= Len(text) /\ text[i] \in atoms THEN RunEnd(text, i + 1, atoms) ELSE i - 1

\* set(text.split()): the maximal runs of atoms that are not whitespace
Words(text) ==
    { SubSeq(text, i, RunUntil(text, i, Whitespace)) :
        i \in { n \in 1..Len(text) :
                  /\ text[n] \notin Whitespace
                  /\ (n = 1 \/ text[n - 1] \in Whitespace) } }

\* the loop over entry.tags: 5.0 for each tag (doubled: 10)
RECURSIVE TagScore(_, _)
TagScore(tags, query_lower) ==
    IF tags = <<>> THEN 0
    ELSE (IF Contains(Lower(Head(tags)), query_lower) THEN 10 ELSE 0)
         + TagScore(Tail(tags), query_lower)

\* the loop over entry.metadata.items(): 3.0 for each value (doubled: 6)
RECURSIVE MetadataScore(_, _, _)
MetadataScore(metadata, keys, query_lower) ==
    IF keys = {} THEN 0
    ELSE LET key == CHOOSE k \in keys : TRUE
         IN (IF Contains(Lower(metadata[key]), query_lower) THEN 6 ELSE 0)
            + MetadataScore(metadata, keys \ {key}, query_lower)

\* a variant of _calculate_relevance in which a matching tag counts 3.0
CalculateRelevanceTagsAsMetadata(entry, query) ==
    LET query_lower == Lower(query)
        content_lower == Lower(entry.content)
        matching_words == Words(query_lower) \cap Words(content_lower)
    IN  (IF Contains(content_lower, query_lower) THEN 20 ELSE 0)
        + Cardinality(matching_words) * 4
        + (TagScore(entry.tags, query_lower) * 6) \div 10
        + MetadataScore(entry.metadata, DOMAIN entry.metadata, query_lower)
        + entry.importance

\* the sum _calculate_relevance accumulates, for the lower-cased query and content
RelevanceOfLowered(entry, query_lower, content_lower) ==
    (IF Contains(content_lower, query_lower) THEN 20 ELSE 0)
    + Cardinality(Words(query_lower) \cap Words(content_lower)) * 4
    + TagScore(entry.tags, query_lower)
    + MetadataScore(entry.metadata, DOMAIN entry.metadata, query_lower)
    + entry.importance

\* _calculate_relevance.  The score is a float whose every term is a multiple
\* of 0.5; the model keeps twice the score, an integer.
CalculateRelevance(entry, query) ==
    RelevanceOfLowered(entry, Lower(query), Lower(entry.content))

(* The scoring function on bounded inputs: texts over a small alphabet that *)
(* has both cases of a letter, a second letter and the blank.              *)

MaxContentLen == 3
MaxQueryLen == 2
Alphabet == {"a", "A", "b", " "}

TextsUpTo(n) == UNION { [1..k -> Alphabet] : k \in 0..n }

RelTags == { <<>>, << <<"a", "b">>, <<"A">> >> }
RelMetadata == { EmptyDict, [k \in {"host", "note"} |-> IF k = "host" THEN <<"b", "A">> ELSE <<"a">>] }
RelImportance == {1, 4}

\* the entries and queries the scoring function is applied to
RelevanceInputs ==
    { [fn |-> "relevance", returned |-> FALSE, query |-> query,
       entry |-> [content |-> content, tags |-> tags,
                  metadata |-> metadata, importance |-> importance]] :
        query \in TextsUpTo(MaxQueryLen), content \in TextsUpTo(MaxContentLen),
        tags \in RelTags, metadata \in RelMetadata, importance \in RelImportance }

CalculateRelevanceCall ==
    /\ call.fn = "relevance"
    /\ ~call.returned
    /\ call' = [fn |-> "relevance", returned |-> TRUE, query |-> call.query,
                entry |-> call.entry,
                score |-> CalculateRelevance(call.entry, call.query)]
    /\ UNCHANGED <<agent_vars, ledger_now, files, index_file, memory_index, entity_stats,
                   loading, writer_vars, acked>>

InitRelevance ==
    /\ clock = StartTime
    /\ pc = 0
    /\ AgentsConstructed
    /\ LedgerConstructed
    /\ call \in RelevanceInputs

NextRelevance == CalculateRelevanceCall

SpecRelevance == InitRelevance /\ [][NextRelevance]_vars

(* The entity files.  An entity file is a text; the atoms of its markup are *)
(* "##", "[ID:", "**", "#" and the like, and the Russian labels of the      *)
(* file format are written transliterated: Vazhnost (importance), Tegi     *)
(* (tags), Metadannye (metadata), Soderzhimoe (content).  No atom but " "   *)
(* and "\n" holds whitespace, and no atom holds a keyword of               *)
(* _determine_importance or _extract_memory_type as a proper part of it.   *)
(* A dict is a function; its items come in the order of KeyOrder.          *)

\* str(n), datetime.isoformat()
NumAtom(n) == ToString(n)

\* the atoms of [A-Za-z0-9_]+, the \w+ of the tag pattern
WordAtoms ==
    {"a", "b", "A", "B", "disk", "ok", "full", "crash", "restart", "FAILED", "failed",
     "fix", "web", "db", "prod", "host", "note", "low", "normal", "high",
     "critical", "emergency", "unknown", "fact", "error", "Error", "Fact", "Entry",
     "Vazhnost", "Tegi", "Metadannye", "Soderzhimoe"}
    \cup { NumAtom(n) : n \in 0..9 }

\* the order in which dict.items() yields the keys of a dict
KeyOrder == <<"Vazhnost", "Tegi", "Metadannye", "host", "note", "Soderzhimoe">>

\* dict.items()
Items(dict) ==
    LET keys == SelectSeq(KeyOrder, LAMBDA k : k \in DOMAIN dict)
    IN  [i \in 1..Len(keys) |-> <<keys[i], dict[keys[i]]>>]

\* "".join(texts)
RECURSIVE Flatten(_)
Flatten(texts) ==
    IF texts = <<>> THEN <<>> ELSE Head(texts) \o Flatten(Tail(texts))

\* sep.join(texts)
RECURSIVE JoinWith(_, _)
JoinWith(texts, sep) ==
    IF texts = <<>> THEN <<>>
    ELSE IF Len(texts) = 1 THEN texts[1]
    ELSE texts[1] \o sep \o JoinWith(Tail(texts), sep)

\* the str a text stands for, as one value (an id, a type, a dict key)
RECURSIVE JoinStr(_)
JoinStr(text) ==
    IF text = <<>> THEN "" ELSE Head(text) \o JoinStr(Tail(text))

\* the elements of a finite set of integers in increasing order
SortedSeq(S) ==
    [n \in 1..Cardinality(S) |-> CHOOSE i \in S : Cardinality({ j \in S : j < i }) = n - 1]

\* the start of the run of whitespace that ends at position i (i + 1 when
\* text[i] is not whitespace)
RECURSIVE BlankStart(_, _)
BlankStart(text, i) ==
    IF i >= 1 /\ text[i] \in Whitespace THEN BlankStart(text, i - 1) ELSE i + 1

\* str.strip(): without the whitespace at its two ends
Strip(text) ==
    SubSeq(text, RunEnd(text, 1, Whitespace) + 1, BlankStart(text, Len(text)) - 1)

\* str.find(sep) + 1: the first position at which sep occurs in text, or 0
Occurrences(text, sep) ==
    { i \in 1..(Len(text) - Len(sep) + 1) : SubSeq(text, i, i + Len(sep) - 1) = sep }

LeastOr0(S) == IF S = {} THEN 0 ELSE CHOOSE i \in S : \A j \in S : i <= j

FirstIndex(text, sep) == LeastOr0(Occurrences(text, sep))

\* re.split(sep, text) for a separator whose occurrences cannot overlap: the
\* pieces between one occurrence and the next
Pieces(text, sep, hits) ==
    [n \in 1..(Len(hits) + 1) |->
        SubSeq(text, IF n = 1 THEN 1 ELSE hits[n - 1] + Len(sep),
                     IF n = Len(hits) + 1 THEN Len(text) ELSE hits[n] - 1)]

SplitAt(text, sep) == Pieces(text, sep, SortedSeq(Occurrences(text, sep)))

\* str.title() of the memory type
TitleAtom(a) ==
    CASE a = "fact" -> "Fact"
      [] a = "error" -> "Error"
      [] OTHER -> a

\* config['importance_levels'].get(importance, 'unknown')
ImportanceName(importance) ==
    CASE importance = 1 -> "low"
      [] importance = 2 -> "normal"
      [] importance = 3 -> "high"
      [] importance = 4 -> "critical"
      [] importance = 5 -> "emergency"
      [] OTHER -> "unknown"

\* _format_entry_as_markdown
FormatEntryAsMarkdown(entry) ==
    LET header == <<"##", " ", TitleAtom(entry.memory_type), " ", "Entry", " ",
                    "[ID:", " ", entry.id, "]", " ",
                    "[TYPE:", " ", entry.memory_type, "]", " ",
                    "[TIME:", " ", NumAtom(entry.timestamp), "]">>
        importance_line == <<"**", "Vazhnost", "**", ":", " ",
                             NumAtom(entry.importance), "/5", " ",
                             "(", ImportanceName(entry.importance), ")">>
        tags_str == JoinWith([i \in 1..Len(entry.tags) |-> <<"#">> \o entry.tags[i]], <<" ">>)
        tags_lines == IF entry.tags = <<>> THEN <<>>
                      ELSE << <<"**", "Tegi", "**", ":", " ">> \o tags_str >>
        items == Items(entry.metadata)
        metadata_lines ==
            IF items = <<>> THEN <<>>
            ELSE << <<"**", "Metadannye", "**", ":">> >>
                 \o [i \in 1..Len(items) |->
                        <<"-", " ", "**", items[i][1], "**", ":", " ">> \o items[i][2]]
        content_lines == <<header, <<>>, importance_line>> \o tags_lines \o metadata_lines
                         \o << <<>>, <<"**", "Soderzhimoe", "**", ":">>, entry.content >>
    IN  JoinWith(content_lines, <<"\n">>)

\* re.search(r'\[LABEL:\s*([^\]]+)\]', header): whether the pattern matches and
\* the stripped capture
Capture(rest, close) ==
    IF close > 1
    THEN [matched |-> TRUE, text |-> Strip(SubSeq(rest, 1, close - 1))]
    ELSE [matched |-> FALSE, text |-> <<>>]

CaptureIn(rest) == Capture(rest, FirstIndex(rest, <<"]">>))

AfterLabel(header, i) ==
    IF i = 0 THEN [matched |-> FALSE, text |-> <<>>]
    ELSE CaptureIn(SubSeq(header, i + 1, Len(header)))

Bracketed(header, label) == AfterLabel(header, FirstIndex(header, <<label>>))

\* the keywords that are substrings of a word: the word itself, and the
\* keyword a longer word is built on
KeywordsIn(a) ==
    CASE a = "crashed" -> {"crashed", "crash"}
      [] a = "restarted" -> {"restarted", "restart"}
      [] OTHER -> {a}

\* any(word in text for word in words): the keywords have no whitespace, so
\* one is in the text when it is in one of its words
AnyWordIn(words, text) == \E i \in 1..Len(text) : KeywordsIn(text[i]) \cap words # {}

\* _extract_entry_id; the id made up for a header without one is a hash of
\* the header and of the time of the parse
IdOfMatch(id_match, header, now) ==
    IF id_match.matched THEN JoinStr(id_match.text)
    ELSE "md5(" \o JoinStr(header) \o NumAtom(now) \o ")"

ExtractEntryId(header, now) == IdOfMatch(Bracketed(header, "[ID:"), header, now)

\* _extract_memory_type
TypeOfMatch(type_match, header_lower) ==
        IF type_match.matched THEN JoinStr(Lower(type_match.text))
        ELSE IF AnyWordIn({"error", "failed", "exception"}, header_lower) THEN "error"
        ELSE IF AnyWordIn({"success", "completed", "fixed"}, header_lower) THEN "success"
        ELSE IF AnyWordIn({"warning", "alert"}, header_lower) THEN "warning"
        ELSE IF AnyWordIn({"recovery", "restart", "restore"}, header_lower) THEN "recovery"
        ELSE IF AnyWordIn({"monitoring", "check", "status"}, header_lower) THEN "monitoring"
        ELSE "fact"

ExtractMemoryType(header) == TypeOfMatch(Bracketed(header, "[TYPE:"), Lower(header))

\* _extract_timestamp: datetime.fromisoformat of the capture, now when there is
\* no capture or it is not a time
FromIsoFormat(text, now) ==
    IF \E t \in 0..now : <<NumAtom(t)>> = text
    THEN CHOOSE t \in 0..now : <<NumAtom(t)>> = text
    ELSE now

ExtractTimestamp(header, now) == FromIsoFormat(Bracketed(header, "[TIME:").text, now)


\* re.findall(r'#(\w+)', content): a "#" that word atoms follow starts a match,
\* and the match takes the whole run of them
FindTags(text) ==
    LET starts == SortedSeq({ i \in 1..(Len(text) - 1) :
                                text[i] = "#" /\ text[i + 1] \in WordAtoms })
    IN  [n \in 1..Len(starts) |->
            SubSeq(text, starts[n] + 1, RunEnd(text, starts[n] + 1, WordAtoms))]

\* \*\*([^*]+)\*\*:\s*([^\n]+) tried at position i.  The key runs to the next
\* "**", which a ":" follows; the value is the rest of the first line after
\* the whitespace (newlines too) that follows the colon.
MetadataValueAt(text, i, j, k) ==
    IF k <= Len(text)
    THEN [matched |-> TRUE, key |-> SubSeq(text, i + 1, j - 1),
          value |-> SubSeq(text, k, RunUntil(text, k, {"\n"})),
          end |-> RunUntil(text, k, {"\n"})]
    ELSE [matched |-> FALSE]

MetadataKeyAt(text, i, j) ==
    IF j > i + 1 /\ j + 1 <= Len(text) /\ text[j + 1] = ":"
    THEN MetadataValueAt(text, i, j, RunEnd(text, j + 2, Whitespace) + 1)
    ELSE [matched |-> FALSE]

MetadataMatchAt(text, i) ==
    IF text[i] = "**"
    THEN MetadataKeyAt(text, i, RunUntil(text, i + 1, {"**"}) + 1)
    ELSE [matched |-> FALSE]

\* re.findall of the metadata pattern: of the positions at which the pattern
\* matches, the matches from left to right from position i on, each one
\* starting after the end of the one before
RECURSIVE LeftmostMatches(_, _, _)

MatchThenRest(text, starts, match) ==
    << <<match.key, match.value>> >> \o LeftmostMatches(text, starts, match.end + 1)

FirstMatchThenRest(text, starts, first) ==
    IF first = 0 THEN <<>>
    ELSE MatchThenRest(text, starts, MetadataMatchAt(text, first))

LeftmostMatches(text, starts, i) ==
    FirstMatchThenRest(text, starts, LeastOr0({ n \in starts : n >= i }))

FindMetadata(text) ==
    LeftmostMatches(text, { n \in 1..Len(text) : MetadataMatchAt(text, n).matched }, 1)

\* _extract_tags_and_metadata: metadata[key.strip()] = value.strip() for the
\* matches in order, a later match of a key replacing an earlier one
\* the dict of the matches, keys[n] the stripped key of matches[n]
MetadataOfKeys(matches, keys) ==
    [k \in { keys[n] : n \in 1..Len(keys) } |->
        Strip(matches[CHOOSE n \in 1..Len(keys) :
                         keys[n] = k /\ \A m \in 1..Len(keys) : keys[m] = k => m <= n][2])]

MetadataOf(matches) ==
    MetadataOfKeys(matches, [n \in 1..Len(matches) |-> JoinStr(Strip(matches[n][1]))])

ExtractTagsAndMetadata(content) ==
    [tags |-> FindTags(content), metadata |-> MetadataOf(FindMetadata(content))]

\* _determine_importance
ImportanceOfLowered(content_lower, memory_type) ==
    IF AnyWordIn({"critical", "emergency", "fatal", "crash"}, content_lower) THEN 5
    ELSE IF memory_type \in {"error", "recovery"}
            \/ AnyWordIn({"failed", "timeout", "restart"}, content_lower) THEN 4
    ELSE IF memory_type \in {"warning", "decision"}
            \/ AnyWordIn({"alert", "changed", "updated"}, content_lower) THEN 3
    ELSE IF memory_type \in {"success", "monitoring"} THEN 2
    ELSE 1

DetermineImportanceCaseSensitive(content, memory_type) ==
    ImportanceOfLowered(content, memory_type)

DetermineImportance(content, memory_type) ==
    ImportanceOfLowered(Lower(content), memory_type)

\* config['memory_types']
MemoryTypes ==
    {"fact", "decision", "observation", "error", "success", "warning", "recovery",
     "monitoring"}

MaxWords == 2

ImportanceWords ==
    {"critical", "emergency", "fatal", "crash", "crashed", "failed", "FAILED", "timeout",
     "restarted", "alert", "changed", "updated", "ok", " "}

\* the contents and types _determine_importance is applied to
ImportanceInputs ==
    { [fn |-> "determine_importance", returned |-> FALSE, content |-> content,
       memory_type |-> memory_type] :
        content \in UNION { [1..n -> ImportanceWords] : n \in 0..MaxWords },
        memory_type \in MemoryTypes }

DetermineImportanceCall ==
    /\ call.fn = "determine_importance"
    /\ ~call.returned
    /\ call' = [fn |-> "determine_importance", returned |-> TRUE,
                content |-> call.content, memory_type |-> call.memory_type,
                importance |-> DetermineImportance(call.content, call.memory_type)]
    /\ UNCHANGED <<agent_vars, ledger_now, files, index_file, memory_index, entity_stats,
                   loading, writer_vars, acked>>

InitImportance ==
    /\ clock = StartTime
    /\ pc = 0
    /\ AgentsConstructed
    /\ LedgerConstructed
    /\ call \in ImportanceInputs

NextImportance == DetermineImportanceCall

\* _determine_importance applied once to a content and a type
SpecImportance == InitImportance /\ [][NextImportance]_vars

\* the MemoryEntry made of what the parse extracted
ParsedEntry(header, entry_content, memory_type, extracted, now) ==
    [id |-> ExtractEntryId(header, now),
     entity |-> "",
     content |-> entry_content,
     memory_type |-> memory_type,
     timestamp |-> ExtractTimestamp(header, now),
     tags |-> extracted.tags,
     metadata |-> extracted.metadata,
     importance |-> DetermineImportance(entry_content, memory_type)]

\* header is lines[0].strip() and entry_content is '\n'.join(lines[1:]).strip()
ParseHeaderAndContent(header, entry_content, now) ==
    ParsedEntry(header, entry_content, ExtractMemoryType(header),
                ExtractTagsAndMetadata(entry_content), now)

\* lines = stripped.split('\n'): lines[0] ends before the first newline, and
\* the join of lines[1:] is what follows it
ParseLines(stripped, newline, now) ==
    IF newline = 0 THEN ParseHeaderAndContent(stripped, <<>>, now)
    ELSE ParseHeaderAndContent(Strip(SubSeq(stripped, 1, newline - 1)),
                               Strip(SubSeq(stripped, newline + 1, Len(stripped))), now)

ParseStripped(stripped, now) == ParseLines(stripped, FirstIndex(stripped, <<"\n">>), now)

\* the body of the loop of _parse_markdown_entries: one section to one entry
ParseSection(section, now) == ParseStripped(Strip(section), now)

\* _parse_markdown_entries: the sections after the first, which is the file header
ParseSections(sections, now) ==
    [n \in 1..(Len(sections) - 1) |-> ParseSection(sections[n + 1], now)]

ParseMarkdownEntries(content, now) ==
    ParseSections(SplitAt(content, <<"\n", "##", " ">>), now)

\* the header _create_entity_file writes
EntityFileHeader(entity, now) ==
    <<"#", " ", entity, "\n", "\n", "memory-of", ":", " ", entity, "\n",
      "written", ":", " ", NumAtom(now), "\n", "\n", "---", "\n">>

\* the header _rewrite_entity_file writes
RewrittenFileHeader(entity, now) ==
    <<"#", " ", entity, "\n", "\n", "memory-of", ":", " ", entity, "\n",
      "updated", ":", " ", NumAtom(now), "\n", "\n", "---", "\n">>

\* what _append_entry_to_file and _rewrite_entity_file write for one entry
EntryBlock(entry) == <<"\n">> \o FormatEntryAsMarkdown(entry) \o <<"\n">>

(* The ledger: the entity files and index.json on disk, and one instance   *)
(* of MarkdownMemoryManager.  The clock ledger_now counts ticks; every     *)
(* update_memory reads it and takes one tick, so that no two entries share *)
(* a time or an id, and a day is DayLength ticks.                          *)

MaxAppends == 2
MaxDays == 2
DayLength == 10

\* None, and the empty str, which the code's tests of truth treat alike
None == ""

\* self.memory_index, a dict of entity -> list of ids: its items in insertion order
IndexKeys(index) == [n \in 1..Len(index) |-> index[n].key]
IndexHas(index, entity) == \E n \in 1..Len(index) : index[n].key = entity
IndexIds(index, entity) ==
    IF IndexHas(index, entity)
    THEN index[CHOOSE n \in 1..Len(index) : index[n].key = entity].ids
    ELSE <<>>

\* self.memory_index[entity] = ids
IndexSet(index, entity, ids) ==
    IF IndexHas(index, entity)
    THEN [n \in 1..Len(index) |->
             IF index[n].key = entity THEN [key |-> entity, ids |-> ids] ELSE index[n]]
    ELSE Append(index, [key |-> entity, ids |-> ids])

\* sum(len(entries) for entries in self.memory_index.values())
RECURSIVE TotalEntries(_)
TotalEntries(index) ==
    IF index = <<>> THEN 0 ELSE Len(Head(index).ids) + TotalEntries(Tail(index))

\* hashlib.md5(entity + content + now).hexdigest()[:8]; the hash is taken to
\* be free of collisions, and the time alone tells two calls apart
EntryId(entity, content, time) == "id" \o NumAtom(time)

\* the MemoryEntry update_memory builds
NewEntry(request, time) ==
    [id |-> EntryId(request.entity, request.content, time),
     entity |-> request.entity,
     content |-> request.content,
     memory_type |-> request.memory_type,
     timestamp |-> time,
     tags |-> request.tags,
     metadata |-> request.metadata,
     importance |-> IF request.importance = 0
                    THEN DetermineImportance(request.content, request.memory_type)
                    ELSE request.importance]

\* the arguments of the update_memory calls; importance 0 is importance=None
Request(entity, content, memory_type, tags, metadata, importance) ==
    [entity |-> entity, content |-> content, memory_type |-> memory_type,
     tags |-> tags, metadata |-> metadata, importance |-> importance]

Requests ==
    { Request("web", <<"disk", " ", "ok">>, "fact", <<>>, EmptyDict, 0),
      Request("web", <<"disk", " ", "ok">>, "fact", << <<"prod">> >>, EmptyDict, 3),
      Request("db", <<"disk", " ", "full">>, "error", <<>>, EmptyDict, 1),
      Request("web", <<"ok", "\n", "high", " ", "disk">>, "fact", <<>>, EmptyDict, 1),
      Request("db", <<"disk", " ", "ok">>, "fact", << <<"db", "-", "1">> >>,
              [k \in {"host"} |-> <<"web">>], 4),
      Request("db", <<"disk", "\n", "##", " ", "fix">>, "fact", <<>>, EmptyDict, 2) }

\* _append_entry_to_file, _create_entity_file: the file after the entry is
\* appended, the file created with its header when it does not exist
AppendEntryToFile(fs, entity, entry, time) ==
    DictSet(fs, entity,
            (IF entity \in DOMAIN fs THEN fs[entity] ELSE EntityFileHeader(entity, time))
            \o EntryBlock(entry))

\* _update_entity_stats: the entry of entity_stats (file_size and
\* last_updated are left out); it has no 'memory_types'
UpdatedEntityStats(stats, index, entity) ==
    DictSet(stats, entity, [total_entries |-> Len(IndexIds(index, entity)),
                            memory_types |-> EmptyDict])

\* the memory types counted by _index_entity_file
CountTypes(entries) ==
    [t \in { entries[n].memory_type : n \in 1..Len(entries) } |->
        Cardinality({ n \in 1..Len(entries) : entries[n].memory_type = t })]

\* _rebuild_index over the files in the order glob yields them:
\* _index_entity_file for each
\* _index_entity_file: the index and the stats with the entries of one file
IndexedEntries(before, entity, entries) ==
    [memory_index |->
        IndexSet(before.memory_index, entity, [n \in 1..Len(entries) |-> entries[n].id]),
     entity_stats |->
        DictSet(before.entity_stats, entity,
                [total_entries |-> Len(entries), memory_types |-> CountTypes(entries)])]

RECURSIVE RebuiltIndex(_, _, _)
RebuiltIndex(fs, order, time) ==
    IF order = <<>> THEN [memory_index |-> <<>>, entity_stats |-> EmptyDict]
    ELSE IndexedEntries(RebuiltIndex(fs, SubSeq(order, 1, Len(order) - 1), time),
                        order[Len(order)],
                        ParseMarkdownEntries(fs[order[Len(order)]], time))

\* the orders in which entities_dir.glob("*.md") can yield the files
GlobOrders(fs) ==
    { order \in UNION { [1..n -> DOMAIN fs] : n \in {Cardinality(DOMAIN fs)} } :
        \A i, j \in 1..Len(order) : i # j => order[i] # order[j] }

\* update_memory, the caller awaiting it before it makes its next call
UpdateMemory ==
    /\ ~loading
    /\ Len(acked) < MaxAppends
    /\ \E request \in Requests :
          LET entry == NewEntry(request, ledger_now)
              index == IndexSet(memory_index, request.entity,
                                Append(IndexIds(memory_index, request.entity), entry.id))
              stats == UpdatedEntityStats(entity_stats, index, request.entity)
          IN  /\ files' = AppendEntryToFile(files, request.entity, entry, ledger_now)
              /\ memory_index' = index
              /\ entity_stats' = stats
              /\ index_file' = SavedIndex(index, stats)
              /\ acked' = Append(acked, entry)
              /\ call' = [fn |-> "update_memory", entry_id |-> entry.id]
    /\ ledger_now' = ledger_now + 1
    /\ UNCHANGED <<agent_vars, loading, writer_vars>>

\* a day passes between two calls
DayPasses ==
    /\ ledger_now + DayLength <= MaxDays * DayLength + MaxAppends
    /\ ledger_now' = ledger_now + DayLength
    /\ call' = NoCall
    /\ UNCHANGED <<agent_vars, files, index_file, memory_index, entity_stats, loading,
                   writer_vars, acked>>

\* _rewrite_entity_file
RewriteEntityFile(entity, entries, time) ==
    RewrittenFileHeader(entity, time)
    \o Flatten([n \in 1..Len(entries) |-> EntryBlock(entries[n])])

\* the body of the loop of cleanup_old_memories: the file of one entity after
\* the sweep
FilteredEntries(entries, cutoff_date) ==
    SelectSeq(entries, LAMBDA entry :
        entry.timestamp > cutoff_date \/ entry.importance >= 4)

RewrittenIfFewer(text, entity, entries, filtered_entries, time) ==
    IF Len(filtered_entries) < Len(entries)
    THEN RewriteEntityFile(entity, filtered_entries, time)
    ELSE text

SweptEntries(text, entity, entries, cutoff_date, time) ==
    RewrittenIfFewer(text, entity, entries, FilteredEntries(entries, cutoff_date), time)

SweptFile(text, entity, cutoff_date, time) ==
    SweptEntries(text, entity, ParseMarkdownEntries(text, time), cutoff_date, time)

SweepDays == {1}

\* cleanup_old_memories(days): the sweep of every indexed entity, then
\* _rebuild_index
CleanupOldMemories ==
    /\ ~loading
    /\ \E days \in SweepDays :
          LET cutoff_date == ledger_now - days * DayLength
              swept == [entity \in DOMAIN files |->
                          IF IndexHas(memory_index, entity)
                          THEN SweptFile(files[entity], entity, cutoff_date, ledger_now)
                          ELSE files[entity]]
          IN  /\ files' = swept
              /\ \E order \in GlobOrders(swept) :
                    LET rebuilt == RebuiltIndex(swept, order, ledger_now)
                    IN  /\ memory_index' = rebuilt.memory_index
                        /\ entity_stats' = rebuilt.entity_stats
                        /\ index_file' = SavedIndex(rebuilt.memory_index,
                                                    rebuilt.entity_stats)
              /\ call' = [fn |-> "cleanup_old_memories", days |-> days]
    /\ UNCHANGED <<agent_vars, ledger_now, loading, writer_vars, acked>>

\* the process ends (a crash or a stop), its coroutines with it, and a new
\* MarkdownMemoryManager is made over the same directory: __init__
NewInstance ==
    /\ ~loading
    /\ memory_index' = <<>>
    /\ entity_stats' = EmptyDict
    /\ loading' = TRUE
    /\ tasks' = [t \in Tasks |-> IdleTask]
    /\ call' = [fn |-> "__init__"]
    /\ loader' = LoaderReady
    /\ UNCHANGED <<agent_vars, ledger_now, files, index_file, contended, acked>>

\* _load_index, the task __init__ created, run when the caller of __init__
\* first gives up control: index.json is read, or the index is rebuilt from
\* the entity files and saved when index.json is missing or cannot be parsed
LoadIndex ==
    /\ loading
    /\ loading' = FALSE
    /\ IF index_file.state = "valid"
       THEN /\ memory_index' = index_file.memory_index
            /\ entity_stats' = index_file.entity_stats
            /\ UNCHANGED index_file
       ELSE \E order \in GlobOrders(files) :
               LET rebuilt == RebuiltIndex(files, order, ledger_now)
               IN  /\ memory_index' = rebuilt.memory_index
                   /\ entity_stats' = rebuilt.entity_stats
                   /\ index_file' = SavedIndex(rebuilt.memory_index,
                                               rebuilt.entity_stats)
    /\ call' = [fn |-> "_load_index"]
    /\ UNCHANGED <<agent_vars, ledger_now, files, writer_vars, acked>>

\* the key results.sort orders by, greatest first
SortsBefore(a, b) ==
    \/ a.relevance_score > b.relevance_score
    \/ a.relevance_score = b.relevance_score /\ a.importance > b.importance

SameSortKey(a, b) ==
    a.relevance_score = b.relevance_score /\ a.importance = b.importance

\* results.sort(key=..., reverse=True): a stable sort, elements of equal key
\* keep the order they had
PlaceOf(results, n) ==
    Cardinality({ m \in 1..Len(results) : SortsBefore(results[m], results[n]) })
    + Cardinality({ m \in 1..(n - 1) : SameSortKey(results[m], results[n]) })
    + 1

SortResults(results) ==
    [p \in 1..Len(results) |->
        results[CHOOSE n \in 1..Len(results) : PlaceOf(results, n) = p]]

\* _search_in_entity: the entries of the file, in file order, that pass the
\* filter and have a positive relevance
SearchResult(entity, entry, relevance_score) ==
    [entity |-> entity,
     entry_id |-> entry.id,
     content |-> entry.content,
     memory_type |-> entry.memory_type,
     timestamp |-> entry.timestamp,
     tags |-> entry.tags,
     metadata |-> entry.metadata,
     importance |-> entry.importance,
     relevance_score |-> relevance_score]

SearchInEntries(entity, entries, query, memory_type) ==
    SelectSeq([n \in 1..Len(entries) |->
                  SearchResult(entity, entries[n], CalculateRelevance(entries[n], query))],
              LAMBDA result :
                  /\ memory_type = None \/ result.memory_type = memory_type
                  /\ result.relevance_score > 0)

SearchInEntity(fs, entity, query, memory_type, time) ==
    IF entity \notin DOMAIN fs THEN <<>>
    ELSE SearchInEntries(entity, ParseMarkdownEntries(fs[entity], time), query, memory_type)

\* the results of search_memory before they are sorted
ScanResults(fs, index, query, entity, memory_type, time) ==
    LET entities_to_search == IF entity # None THEN <<entity>> ELSE IndexKeys(index)
    IN  Flatten([n \in 1..Len(entities_to_search) |->
                    SearchInEntity(fs, entities_to_search[n], query, memory_type, time)])

\* search_memory
FirstResults(results, limit) == SubSeq(results, 1, Min(limit, Len(results)))

SearchResults(fs, index, query, entity, memory_type, limit, time) ==
    FirstResults(SortResults(ScanResults(fs, index, query, entity, memory_type, time)), limit)

Queries == { <<"disk">>, <<"high">>, <<"disk", " ", "ok">> }
EntityFilters == { None, "web" }
TypeFilters == { None, "error" }
Limits == { 1, 10 }

SearchMemory ==
    /\ \E query \in Queries, entity \in EntityFilters,
          memory_type \in TypeFilters, limit \in Limits :
          call' = [fn |-> "search_memory", query |-> query, entity |-> entity,
                   memory_type |-> memory_type, limit |-> limit,
                   results |-> SearchResults(files, memory_index, query, entity,
                                             memory_type, limit, ledger_now)]
    /\ UNCHANGED <<agent_vars, ledger_now, files, index_file, memory_index, entity_stats,
                   loading, writer_vars, acked>>

\* the memory_types get_memory_stats sums over the values of entity_stats
SummedTypes(stats) ==
    [t \in UNION { DOMAIN stats[e].memory_types : e \in DOMAIN stats } |->
        LET counting == { e \in DOMAIN stats : t \in DOMAIN stats[e].memory_types }
            count[S \in SUBSET counting] ==
                IF S = {} THEN 0
                ELSE LET e == CHOOSE x \in S : TRUE
                     IN  stats[e].memory_types[t] + count[S \ {e}]
        IN  count[counting]]

\* get_memory_stats: it reads self.memory_index and self.entity_stats without
\* giving up control
GetMemoryStats ==
    /\ call' = [fn |-> "get_memory_stats",
                total_entries |-> TotalEntries(memory_index),
                entities_count |-> Len(memory_index),
                memory_types |-> SummedTypes(entity_stats)]
    /\ UNCHANGED <<agent_vars, ledger_now, files, index_file, memory_index, entity_stats,
                   loading, writer_vars, acked>>

InitLedger == Constructed /\ pc = 0

NextLedger ==
    \/ LoadIndex
    \/ UpdateMemory
    \/ DayPasses
    \/ CleanupOldMemories
    \/ NewInstance
    \/ GetMemoryStats

\* the ledger used by one caller at a time, with sweeps and restarts
SpecLedger == InitLedger /\ [][NextLedger]_vars

NextSearch ==
    \/ LoadIndex
    \/ UpdateMemory
    \/ NewInstance
    \/ SearchMemory
    \/ GetMemoryStats

\* the ledger written and searched by one caller at a time
SpecSearch == InitLedger /\ [][NextSearch]_vars

(* Concurrent callers.  update_memory is a coroutine; it gives up control   *)
(* at every await of an aiofiles operation, which runs in a thread of the   *)
(* default executor, and other coroutines run in between.  One step of a    *)
(* task is one file operation together with the code that runs when the     *)
(* coroutine resumes after it.  aiofiles wraps a buffered file: a text       *)
(* shorter than the buffer reaches the file when the handle is closed, at    *)
(* the end of the file for a handle opened with 'a' and at the position of   *)
(* the handle, 0, for a handle opened with 'w'.                              *)

MaxCalls == 3

\* the arguments of the concurrent calls
WriterRequests == { request \in Requests : request.tags = <<>> /\ request.importance < 2 }

\* open(entity_file, 'w'): the file is created, or cut to nothing
Truncated(fs, entity) == DictSet(fs, entity, <<>>)

\* close of a handle opened with 'w' and not moved since: the text goes to
\* offset 0, over what the file holds by then
WrittenAtStart(old, text) == text \o SubSeq(old, Len(text) + 1, Len(old))

FlushedIntoAll(fs, entity, text) ==
    [e \in (DOMAIN fs) \cup {entity} |-> (IF e \in DOMAIN fs THEN fs[e] ELSE <<>>) \o text]

\* close of a handle opened with 'a': the text goes to the end of the file,
\* which open created if it was missing
Flushed(fs, entity, text) ==
    DictSet(fs, entity, (IF entity \in DOMAIN fs THEN fs[entity] ELSE <<>>) \o text)

\* the length of the text of index.json, which grows with the entities and
\* the ids it lists
IndexSize(file) ==
    CASE file.state = "valid" -> Len(file.memory_index) + TotalEntries(file.memory_index)
      [] file.state = "corrupt" -> file.size
      [] OTHER -> 0

\* close of the handle _save_index opened with 'w': the text written at
\* offset 0 replaces the file unless a longer text has been put there since
\* the open, whose tail then stays behind the new text
IndexWrittenAtStart(old, snapshot) ==
    IF IndexSize(snapshot) >= IndexSize(old) THEN snapshot
    ELSE [state |-> "corrupt", size |-> IndexSize(old)]

InFlight == { t \in Tasks : tasks[t].pc # "idle" }

\* update_memory up to its first await: the entry is made and
\* _append_entry_to_file tests entity_file.exists()
StartUpdateMemory(t) ==
    /\ tasks[t].pc = "idle"
    /\ ledger_now < MaxCalls
    /\ \E request \in WriterRequests :
          /\ tasks' = [tasks EXCEPT ![t] =
                          [pc |-> IF request.entity \in DOMAIN files
                                  THEN "append" ELSE "create_open",
                           entry |-> NewEntry(request, ledger_now)]]
          /\ contended' = IF \E u \in InFlight : tasks[u].entry.entity = request.entity
                          THEN contended \cup {request.entity} ELSE contended
    /\ ledger_now' = ledger_now + 1
    /\ UNCHANGED <<agent_vars, call, files, index_file, memory_index, entity_stats,
                   loading, loader, acked>>

\* update_memory called once the index is loaded
Call(t) == ~loading /\ StartUpdateMemory(t)

\* _create_entity_file: aiofiles.open(entity_file, 'w')
CreateOpen(t) ==
    /\ tasks[t].pc = "create_open"
    /\ files' = Truncated(files, tasks[t].entry.entity)
    /\ tasks' = [tasks EXCEPT ![t].pc = "create_close"]
    /\ UNCHANGED <<agent_vars, call, ledger_now, index_file, memory_index, entity_stats,
                   loading, contended, loader, acked>>

\* _create_entity_file: the header is written and the handle closed
CreateClose(t) ==
    /\ tasks[t].pc = "create_close"
    /\ files' = DictSet(files, tasks[t].entry.entity,
                        WrittenAtStart(files[tasks[t].entry.entity],
                                       EntityFileHeader(tasks[t].entry.entity,
                                                        tasks[t].entry.timestamp)))
    /\ tasks' = [tasks EXCEPT ![t].pc = "append"]
    /\ UNCHANGED <<agent_vars, call, ledger_now, index_file, memory_index, entity_stats,
                   loading, contended, loader, acked>>

\* _append_entry_to_file: the entry is written through a handle opened with
\* 'a' and the handle closed; then update_memory puts the id in the index and
\* refreshes the stats of the entity
AppendClose(t) ==
    /\ tasks[t].pc = "append"
    /\ LET entry == tasks[t].entry
           index == IndexSet(memory_index, entry.entity,
                             Append(IndexIds(memory_index, entry.entity), entry.id))
       IN  /\ files' = Flushed(files, entry.entity, EntryBlock(entry))
           /\ memory_index' = index
           /\ entity_stats' = UpdatedEntityStats(entity_stats, index, entry.entity)
    /\ tasks' = [tasks EXCEPT ![t].pc = "save_open"]
    /\ UNCHANGED <<agent_vars, call, ledger_now, index_file, loading, contended, loader,
                   acked>>

\* _save_index: aiofiles.open(index_file, 'w'), then json.dumps of the dicts
\* as they are when the coroutine resumes
SaveOpen(t) ==
    /\ tasks[t].pc = "save_open"
    /\ index_file' = [state |-> "empty"]
    /\ tasks' = [tasks EXCEPT ![t] = [pc |-> "save_close", entry |-> tasks[t].entry,
                                      snapshot |-> SavedIndex(memory_index, entity_stats)]]
    /\ UNCHANGED <<agent_vars, call, ledger_now, files, memory_index, entity_stats,
                   loading, contended, loader, acked>>

\* _save_index: the handle is closed, and update_memory returns the id
SaveClose(t) ==
    /\ tasks[t].pc = "save_close"
    /\ index_file' = IndexWrittenAtStart(index_file, tasks[t].snapshot)
    /\ acked' = Append(acked, tasks[t].entry)
    /\ call' = [fn |-> "update_memory", entry_id |-> tasks[t].entry.id]
    /\ tasks' = [tasks EXCEPT ![t] = IdleTask]
    /\ UNCHANGED <<agent_vars, ledger_now, files, memory_index, entity_stats, loading,
                   contended, loader>>

NextWriters ==
    \/ LoadIndex
    \/ NewInstance
    \/ \E t \in Tasks :
          \/ Call(t)
          \/ CreateOpen(t)
          \/ CreateClose(t)
          \/ AppendClose(t)
          \/ SaveOpen(t)
          \/ SaveClose(t)

\* the ledger written by coroutines that run at once (asyncio.gather, or one
\* task for each failing service)
SpecWriters == InitLedger /\ [][NextWriters]_vars

-----------------------------------------------------------------------------
(* enhanced_recovery_agent_v2.py, the coroutines of one agent: the         *)
(* monitoring loop of start_monitoring, process_command calls made while   *)
(* it runs (scripts/start-recovery-agent.py starts the loop as a task and   *)
(* reads commands; tests/test_system_stability.py runs process_command in  *)
(* several tasks), and stop() called from the signal handler.  A coroutine *)
(* gives up control where it awaits the tool server: inside                *)
(* mcp_integration.restart_service.  One step is the code a coroutine runs *)
(* from one such await to the next.                                        *)

\* config['recovery']['max_concurrent_recoveries']
max_concurrent_recoveries == 2

\* monitoring cycles explored with commands and stop() interleaved
MaxTaskCycles == 2

\* positions of the monitoring loop: the recovery loop at the i-th service,
\* the sleep that ends the cycle, and the loop left (start_monitoring returned)
RecoveryAt(i) == Len(ServiceOrder) + i
AtSleep == 2 * Len(ServiceOrder) + 1
AtExit == 2 * Len(ServiceOrder) + 2

Restarting(s) == { c \in Callers : in_flight[c] = s }

\* start_monitoring: running = True, initialize(), the loop is entered
TaskStartMonitoring ==
    /\ pc = 0
    /\ running' = TRUE
    /\ \E available \in BOOLEAN : mcp_integration' = available
    /\ pc' = 1
    /\ last_run' = NoRun
    /\ UNCHANGED <<clock, ra_vars, enh_vars, v2_services, attempted_at, in_flight>>
    /\ UNCHANGED <<simple_vars, bridge_vars, idle_vars, mem_vars>>

\* _perform_automated_recovery, the loop body for the i-th service up to the
\* await of restart_service (with the tool bridge) or to its end (without)
TaskRecover ==
    /\ pc \in RecoveryAt(1)..RecoveryAt(Len(ServiceOrder))
    /\ in_flight["loop"] = NoRestart
    /\ LET s == ServiceOrder[pc - Len(ServiceOrder)]
       IN  IF s \notin DOMAIN v2_services \/ ~V2Eligible(v2_services[s], clock)
           THEN /\ pc' = pc + 1
                /\ UNCHANGED <<v2_services, attempted_at, in_flight, last_run>>
           ELSE IF mcp_integration
           THEN /\ in_flight' = [in_flight EXCEPT !["loop"] = s]
                /\ last_run' = [NoRun EXCEPT !.agent = "v2", !.op = "restart_call",
                                             !.service = s]
                /\ UNCHANGED <<pc, v2_services, attempted_at>>
           ELSE /\ v2_services' = DictSet(v2_services, s,
                      V2RecoverService(v2_services[s], clock, FALSE, TRUE).health)
                /\ attempted_at' = [attempted_at EXCEPT ![s] = Append(@, clock)]
                /\ last_run' = [NoRun EXCEPT !.agent = "v2", !.op = "recover",
                                             !.service = s]
                /\ pc' = pc + 1
                /\ UNCHANGED in_flight
    /\ UNCHANGED <<clock, ra_vars, enh_vars, mcp_integration, running>>
    /\ UNCHANGED <<simple_vars, bridge_vars, idle_vars, mem_vars>>

\* _perform_automated_recovery resumed: restart_service has returned or
\* raised; an exception leaves the loop over the services
TaskRecoverResumed ==
    /\ in_flight["loop"] # NoRestart
    /\ \E outcome \in RestartOutcomes :
          LET s == in_flight["loop"]
          IN  IF outcome = "raises"
              THEN /\ pc' = AtSleep
                   /\ UNCHANGED <<v2_services, attempted_at>>
              ELSE /\ pc' = pc + 1
                   /\ v2_services' = DictSet(v2_services, s,
                         V2RecoverService(v2_services[s], clock, TRUE,
                                          outcome = "success").health)
                   /\ attempted_at' = [attempted_at EXCEPT ![s] = Append(@, clock)]
    /\ in_flight' = [in_flight EXCEPT !["loop"] = NoRestart]
    /\ last_run' = [NoRun EXCEPT !.agent = "v2", !.op = "restart_return",
                                 !.service = in_flight["loop"]]
    /\ UNCHANGED <<clock, ra_vars, enh_vars, mcp_integration, running>>
    /\ UNCHANGED <<simple_vars, bridge_vars, idle_vars, mem_vars>>

\* start_monitoring: asyncio.sleep(interval) is over and `while self.running`
\* is tested; when it fails the loop is left and _cleanup runs
TaskSleep ==
    /\ pc = AtSleep
    /\ clock + check_interval <= StartTime + MaxTaskCycles * check_interval
    /\ clock' = clock + check_interval
    /\ pc' = IF running THEN 1 ELSE AtExit
    /\ last_run' = NoRun
    /\ UNCHANGED <<ra_vars, v2_vars, enh_vars, task_vars>>
    /\ UNCHANGED mem_vars

\* process_command("restart <service>") up to the await of restart_service;
\* without the tool bridge the command returns at once
CmdRestart(c) ==
    /\ c # "loop"
    /\ in_flight[c] = NoRestart
    /\ mcp_integration
    /\ \E s \in Services :
          /\ in_flight' = [in_flight EXCEPT ![c] = s]
          /\ last_run' = [NoRun EXCEPT !.agent = "v2", !.op = "command",
                                       !.service = s]
    /\ UNCHANGED <<clock, pc, ra_vars, v2_vars, enh_vars, running>>
    /\ UNCHANGED <<simple_vars, bridge_vars, idle_vars, mem_vars>>

\* process_command resumed: restart_service is over, the answer is returned
CmdRestartResumed(c) ==
    /\ c # "loop"
    /\ in_flight[c] # NoRestart
    /\ in_flight' = [in_flight EXCEPT ![c] = NoRestart]
    /\ last_run' = [NoRun EXCEPT !.agent = "v2", !.op = "command_return",
                                 !.service = in_flight[c]]
    /\ UNCHANGED <<clock, pc, ra_vars, v2_vars, enh_vars, running>>
    /\ UNCHANGED <<simple_vars, bridge_vars, idle_vars, mem_vars>>

\* stop(), called by the signal handler of main
Stop ==
    /\ pc \in 1..AtSleep
    /\ running
    /\ running' = FALSE
    /\ UNCHANGED <<clock, pc, ra_vars, v2_vars, enh_vars, in_flight, last_run>>
    /\ UNCHANGED <<simple_vars, bridge_vars, idle_vars, mem_vars>>

NextV2Tasks ==
    \/ TaskStartMonitoring
    \/ V2CheckServiceHealth
    \/ V2ProcessMcpSystemStatus
    \/ TaskRecover
    \/ TaskRecoverResumed
    \/ TaskSleep
    \/ \E c \in Callers : CmdRestart(c)
    \/ \E c \in Callers : CmdRestartResumed(c)
    \/ Stop

SpecV2Tasks == InitV2 /\ [][NextV2Tasks]_vars

-----------------------------------------------------------------------------
(* enhanced_recovery_agent.py: _perform_automated_recovery called on the   *)
(* agent (SpecEnhRecovery).  In the monitoring cycle the call follows the  *)
(* probes, and the first probe ends the cycle with the exception of its    *)
(* memory update; here the coroutine is awaited on the state the probes    *)
(* and the commands have left.                                             *)

\* _should_attempt_recovery(service_name, health): the cooldown entry looked
\* up is the one of the service and of its present status
ShouldAttemptRecovery(cooldowns, s, health, now) ==
    /\ ~(/\ <<s, health.status>> \in DOMAIN cooldowns
         /\ now < cooldowns[<<s, health.status>>])
    /\ health.recovery_attempts < max_recovery_attempts

\* the services _perform_automated_recovery hands to _recover_service
EnhRecovered(services, cooldowns, now) ==
    {s \in DOMAIN services :
        /\ services[s].status \in {"unhealthy", "degraded"}
        /\ ShouldAttemptRecovery(cooldowns, s, services[s], now)}

\* _perform_automated_recovery, the loop over self.services.items() from
\* service i of the configuration on
RECURSIVE EnhRecoveryLoop(_, _, _, _, _)
EnhRecoveryLoop(services, cooldowns, now, restart_ok, i) ==
    IF i > Len(ServiceOrder) THEN [services |-> services, cooldowns |-> cooldowns]
    ELSE LET s == ServiceOrder[i]
         IN  IF s \in EnhRecovered(services, cooldowns, now)
             THEN EnhRecoveryLoop(
                      DictSet(services, s,
                              RecoverService(services[s], now, restart_ok[s]).health),
                      DictSet(cooldowns, <<s, services[s].status>>,
                              now + cooldown_period),
                      now, restart_ok, i + 1)
             ELSE EnhRecoveryLoop(services, cooldowns, now, restart_ok, i + 1)

\* await agent._perform_automated_recovery()
EnhPerformAutomatedRecovery ==
    /\ pc = 0
    /\ DOMAIN enh_services # {}
    /\ \E restart_ok \in [Services -> BOOLEAN] :
          LET recovered == EnhRecovered(enh_services, recovery_cooldowns, clock)
              loop == EnhRecoveryLoop(enh_services, recovery_cooldowns, clock,
                                      restart_ok, 1)
          IN  /\ \A s \in Services \ recovered : ~restart_ok[s]
              /\ enh_services' = loop.services
              /\ recovery_cooldowns' = loop.cooldowns
              /\ last_run' = [NoRun EXCEPT !.agent = "enh", !.op = "auto",
                    !.eligible = {s \in DOMAIN enh_services :
                        enh_services[s].status \in {"unhealthy", "degraded"}},
                    !.called = recovered]
    /\ UNCHANGED <<clock, pc, ra_vars, v2_vars>>
    /\ UNCHANGED <<task_vars, mem_vars>>

NextEnhRecovery ==
    \/ EnhStartMonitoring
    \/ EnhCheckServiceHealth
    \/ EnhCmdRecover
    \/ EnhTimePasses
    \/ EnhPerformAutomatedRecovery

SpecEnhRecovery == InitEnh /\ [][NextEnhRecovery]_vars

-----------------------------------------------------------------------------
(* agents/simple-recovery-agent.py: SimpleRecoveryAgent (SpecSimple)       *)
(*                                                                         *)
(* The ledger of this agent is SimpleMemoryManager.update_memory(entity,   *)
(* data): a '## Update <time>' section with one '- key: value' line per    *)
(* item of data, added to the file of the entity.  An entry is modelled by *)
(* its entity and by the items that matter to the claims.                  *)

\* check_service_health: the status of the result (a 200 answer whose JSON
\* body holds no 'status' is healthy)
SimpleCheckResult(outcome) ==
    IF outcome.kind = "http" /\ outcome.code = 200
    THEN [status |-> "healthy", error |-> <<>>]
    ELSE IF outcome.kind = "http"
    THEN [status |-> "unhealthy", error |-> <<>>]
    ELSE [status |-> "unhealthy", error |-> <<outcome.kind>>]

\* self.recovery_attempts.get(service_name, {}).get('count', 0)
SimpleCount(attempts, s) ==
    IF s \in DOMAIN attempts THEN attempts[s].count ELSE 0

\* self.recovery_attempts.get(service_name, {}).get('last_attempt', 0)
SimpleLastAttempt(attempts, s) ==
    IF s \in DOMAIN attempts THEN attempts[s].last_attempt ELSE 0

\* time.time() - last_attempt < self.recovery_cooldown
SimpleInCooldown(attempts, s, now) ==
    now - SimpleLastAttempt(attempts, s) < recovery_cooldown

\* what the POST to /restart can come back with
SimpleRestartOutcomes == {"ok", "refused", "raises"}

\* attempt_recovery: the counters afterwards and the ledger entries written:
\* 'success: True' after a 200 answer, nothing for another answer or an
\* exception, then the counters of all services
AttemptRecovery(attempts, s, now, restart) ==
    LET counted == DictSet(attempts, s,
                       [count |-> SimpleCount(attempts, s) + 1,
                        last_attempt |-> now])
    IN  [attempts |-> counted,
         handled |-> "recovery",
         entries |->
             (IF restart = "ok"
              THEN << [entity |-> "recovery_agent", entry |-> "outcome",
                       service |-> s, success |-> TRUE] >>
              ELSE <<>>)
             \o << [entity |-> "recovery_agent", entry |-> "counters",
                    service |-> "none", success |-> FALSE] >>]

\* handle_service_failure: inside the cooldown, or with the attempts used up,
\* a line is logged and the handler returns
HandleServiceFailure(attempts, s, now, restart) ==
    IF SimpleInCooldown(attempts, s, now)
    THEN [attempts |-> attempts, handled |-> "cooldown", entries |-> <<>>]
    ELSE IF SimpleCount(attempts, s) >= max_recovery_attempts
    THEN [attempts |-> attempts, handled |-> "max attempts", entries |-> <<>>]
    ELSE AttemptRecovery(attempts, s, now, restart)

\* monitor_services, one iteration of the loop over config['services']: the
\* probe, its result stored and written to the ledger under the name of the
\* service, and the failure handler when the status is 'unhealthy'
SimpleMonitorService ==
    /\ pc \in 1..Len(ServiceOrder)
    /\ \E outcome \in ProbeOutcomes, restart \in SimpleRestartOutcomes :
          LET s == ServiceOrder[pc]
              res == SimpleCheckResult(outcome)
              observed == << [entity |-> s, entry |-> "observation",
                              service |-> s, success |-> FALSE] >>
              handler == HandleServiceFailure(simple_attempts, s, clock, restart)
          IN  /\ simple_status' = DictSet(simple_status, s, res)
              /\ IF res.status = "unhealthy"
                 THEN /\ (handler.handled # "recovery" => restart = "ok")
                      /\ simple_attempts' = handler.attempts
                      /\ last_run' = [NoRun EXCEPT !.agent = "simple",
                            !.op = handler.handled, !.service = s,
                            !.outcome = outcome, !.status = res.status,
                            !.error = res.error,
                            !.in_window = SimpleInCooldown(simple_attempts, s, clock),
                            !.before = SimpleCount(simple_attempts, s),
                            !.after = SimpleCount(handler.attempts, s),
                            !.strategies =
                                IF handler.handled = "recovery"
                                THEN << [strategy |-> "restart",
                                         success |-> restart = "ok"] >>
                                ELSE <<>>,
                            !.events = observed \o handler.entries]
                 ELSE /\ restart = "ok"
                      /\ UNCHANGED simple_attempts
                      /\ last_run' = [NoRun EXCEPT !.agent = "simple",
                            !.op = "probe", !.service = s,
                            !.outcome = outcome, !.status = res.status,
                            !.before = SimpleCount(simple_attempts, s),
                            !.after = SimpleCount(simple_attempts, s),
                            !.events = observed]
    /\ pc' = pc + 1
    /\ UNCHANGED <<clock, ra_vars, v2_vars, enh_vars, running, in_flight>>
    /\ UNCHANGED <<bridge_vars, idle_vars>>
    /\ UNCHANGED mem_vars

\* start_monitoring after monitor_services: generate_system_report writes the
\* report to the ledger, then asyncio.sleep(check_interval)
SimpleSleep ==
    /\ pc = Len(ServiceOrder) + 1
    /\ clock + check_interval <= MaxTime
    /\ clock' = clock + check_interval
    /\ pc' = 1
    /\ last_run' = [NoRun EXCEPT !.agent = "simple", !.op = "report",
                        !.events = << [entity |-> "system", entry |-> "report",
                                       service |-> "none", success |-> FALSE] >>]
    /\ UNCHANGED <<ra_vars, v2_vars, enh_vars, task_vars>>
    /\ UNCHANGED mem_vars

\* simple-recovery-agent.py: constructed, start_monitoring enters its loop
InitSimple == Constructed /\ pc = 1

NextSimple == SimpleMonitorService \/ SimpleSleep

SpecSimple == InitSimple /\ [][NextSimple]_vars

(* The _load_index task run step by step.  __init__ creates the task and   *)
(* returns; the task first runs when the caller of __init__ gives up       *)
(* control, which the first await of an update_memory call does, and from  *)
(* then on it runs between the steps of the update_memory coroutines.      *)

\* _rebuild_index up to its first await: the dicts are cleared in place and
\* glob lists the directory; with no file to index it goes on to _save_index
RebuildStarted(order) ==
    IF order = <<>> THEN [pc |-> "save_open"] ELSE [pc |-> "index", order |-> order]

\* the update_memory coroutines that have entered _save_index: index_data
\* holds the dicts that were self.memory_index and self.entity_stats then
HoldingDicts(index, stats) ==
    [t \in Tasks |->
        IF tasks[t].pc = "save_open"
        THEN [pc |-> "save_open_held", entry |-> tasks[t].entry,
              snapshot |-> SavedIndex(index, stats)]
        ELSE tasks[t]]

\* update_memory called while the _load_index task has not finished
EarlyCall(t) == loading /\ StartUpdateMemory(t)

\* _load_index up to its first await: index.json is opened for reading when
\* it exists, the index is rebuilt when it does not
LoadStart ==
    /\ loading
    /\ loader.pc = "ready"
    /\ IF index_file.state # "absent"
       THEN /\ loader' = [pc |-> "read"]
            /\ UNCHANGED <<memory_index, entity_stats>>
       ELSE /\ memory_index' = <<>>
            /\ entity_stats' = EmptyDict
            /\ \E order \in GlobOrders(files) : loader' = RebuildStarted(order)
    /\ call' = NoCall
    /\ UNCHANGED <<agent_vars, ledger_now, files, index_file, loading, tasks, contended,
                   acked>>

\* _load_index: index.json is read; self.memory_index and self.entity_stats
\* are bound to the dicts parsed from it, or, when json.loads raises, the
\* dicts are cleared and the index is rebuilt
LoadRead ==
    /\ loader.pc = "read"
    /\ IF index_file.state = "valid"
       THEN /\ memory_index' = index_file.memory_index
            /\ entity_stats' = index_file.entity_stats
            /\ tasks' = HoldingDicts(memory_index, entity_stats)
            /\ loader' = [pc |-> "done"]
            /\ loading' = FALSE
            /\ call' = [fn |-> "_load_index"]
       ELSE /\ memory_index' = <<>>
            /\ entity_stats' = EmptyDict
            /\ \E order \in GlobOrders(files) : loader' = RebuildStarted(order)
            /\ call' = NoCall
            /\ UNCHANGED <<tasks, loading>>
    /\ UNCHANGED <<agent_vars, ledger_now, files, index_file, contended, acked>>

\* _index_entity_file for the next file glob listed: the file is read and
\* its ids and counts are put in the dicts
LoadIndexEntityFile ==
    /\ loader.pc = "index"
    /\ LET entity == Head(loader.order)
           indexed == IndexedEntries(
                          [memory_index |-> memory_index, entity_stats |-> entity_stats],
                          entity, ParseMarkdownEntries(files[entity], ledger_now))
       IN  /\ memory_index' = indexed.memory_index
           /\ entity_stats' = indexed.entity_stats
    /\ loader' = RebuildStarted(Tail(loader.order))
    /\ call' = NoCall
    /\ UNCHANGED <<agent_vars, ledger_now, files, index_file, loading, tasks, contended,
                   acked>>

\* _save_index of the rebuild: index.json is opened with 'w'
LoadSaveOpen ==
    /\ loader.pc = "save_open"
    /\ index_file' = [state |-> "empty"]
    /\ loader' = [pc |-> "save_close",
                  snapshot |-> SavedIndex(memory_index, entity_stats)]
    /\ call' = NoCall
    /\ UNCHANGED <<agent_vars, ledger_now, files, memory_index, entity_stats, loading,
                   tasks, contended, acked>>

\* _save_index of the rebuild: the handle is closed, and the task ends
LoadSaveClose ==
    /\ loader.pc = "save_close"
    /\ index_file' = IndexWrittenAtStart(index_file, loader.snapshot)
    /\ loader' = [pc |-> "done"]
    /\ loading' = FALSE
    /\ call' = [fn |-> "_load_index"]
    /\ UNCHANGED <<agent_vars, ledger_now, files, memory_index, entity_stats, tasks,
                   contended, acked>>

\* _save_index of an update_memory whose index_data holds the dicts
\* _load_index has since replaced: index.json is opened with 'w'
SaveOpenHeld(t) ==
    /\ tasks[t].pc = "save_open_held"
    /\ index_file' = [state |-> "empty"]
    /\ tasks' = [tasks EXCEPT ![t].pc = "save_close"]
    /\ UNCHANGED <<agent_vars, call, ledger_now, files, memory_index, entity_stats,
                   loading, contended, loader, acked>>

\* cleanup_old_memories awaited by a caller with no update_memory under way
CleanupWhenIdle == InFlight = {} /\ CleanupOldMemories

\* a new instance made over the directory once every call has returned
NewInstanceWhenIdle == InFlight = {} /\ NewInstance

\* one caller, which awaits each update_memory before it makes the next call
StartupTasks == {1}

MaxStartupCalls == 2

NextStartup ==
    \/ LoadStart
    \/ LoadRead
    \/ LoadIndexEntityFile
    \/ LoadSaveOpen
    \/ LoadSaveClose
    \/ CleanupWhenIdle
    \/ NewInstanceWhenIdle
    \/ \E t \in StartupTasks :
          \/ ledger_now < MaxStartupCalls /\ Call(t)
          \/ ledger_now < MaxStartupCalls /\ EarlyCall(t)
          \/ loader.pc # "ready" /\ CreateOpen(t)
          \/ loader.pc # "ready" /\ CreateClose(t)
          \/ loader.pc # "ready" /\ AppendClose(t)
          \/ loader.pc # "ready" /\ SaveOpen(t)
          \/ SaveOpenHeld(t)
          \/ loader.pc # "ready" /\ SaveClose(t)

\* the ledger written by coroutines while the index is loaded in the
\* background, with sweeps and restarts
SpecStartup == InitLedger /\ [][NextStartup]_vars

(* build-20250923-155853/lib/mcp-ai-agent-integration.py, the connections *)
(* of MCPConnectionManager to the tool-bridge servers.  A reconnection     *)
(* task is the coroutine reconnect_loop; one step of it is a sleep         *)
(* together with the connect_server call that follows it.                  *)

MaxReconnections == 5

\* a reconnect_loop task: the value of `attempt` its next sleep uses
Reconnecting(attempt) == [state |-> "sleeping", attempt |-> attempt]
FinishedTask == [state |-> "done"]

IsSleeping(tasks_of, s) == s \in DOMAIN tasks_of /\ tasks_of[s].state = "sleeping"

\* _schedule_reconnection: the task of the server, if any, is cancelled
\* (the running task itself when reconnect_loop is the caller: it ends at
\* its next await), and a new reconnect_loop task is created
ScheduleReconnection(tasks_of, s) == DictSet(tasks_of, s, Reconnecting(0))

\* the outcomes of session.get(url/health) and of the initialize request
ConnectOutcomes == {"ok", "refused"}

\* connect_server(server_id): the dicts after it
ConnectServer(status, tasks_of, s, outcome) ==
    IF outcome = "ok"
    THEN [connection_status |-> DictSet(status, s, TRUE), reconnect_tasks |-> tasks_of]
    ELSE [connection_status |-> DictSet(status, s, FALSE),
          reconnect_tasks |-> ScheduleReconnection(tasks_of, s)]

\* connect_all_servers: the first connect_server of a server
ConnectAllServers(s) ==
    /\ s \notin DOMAIN connection_status
    /\ \E outcome \in ConnectOutcomes :
          LET after == ConnectServer(connection_status, reconnect_tasks, s, outcome)
          IN  /\ connection_status' = after.connection_status
              /\ reconnect_tasks' = after.reconnect_tasks
    /\ UNCHANGED reconnections
    /\ UNCHANGED <<clock, pc, ra_vars, v2_vars, enh_vars, running, in_flight, simple_vars,
                   idle_vars, last_run, mem_vars>>

\* reconnect_loop: one turn of its loop, the sleep and connect_server.  A
\* connect_server that succeeds lets the task return; one that fails has
\* called _schedule_reconnection from inside the task, which has cancelled
\* the task and created another, so the turn with attempt + 1 is never made
ReconnectLoop(s) ==
    /\ IsSleeping(reconnect_tasks, s)
    /\ Len(reconnections[s]) < MaxReconnections
    /\ reconnections' =
          [reconnections EXCEPT
              ![s] = Append(@, retry_delay * 2 ^ reconnect_tasks[s].attempt)]
    /\ \E outcome \in ConnectOutcomes :
          LET after == ConnectServer(connection_status, reconnect_tasks, s, outcome)
          IN  /\ connection_status' = after.connection_status
              /\ reconnect_tasks' =
                    IF outcome = "ok" THEN DictSet(reconnect_tasks, s, FinishedTask)
                    ELSE after.reconnect_tasks
    /\ UNCHANGED <<clock, pc, ra_vars, v2_vars, enh_vars, running, in_flight, simple_vars,
                   idle_vars, last_run, mem_vars>>

\* the outcomes of the request of call_tool: an answer 200, another answer,
\* an exception whose text has 'connection' or 'timeout', another exception
ToolOutcomes == {"ok", "http error", "connection error", "other error"}

\* call_tool(server_id, ...) on a server marked connected
CallTool(s) ==
    /\ s \in DOMAIN connection_status
    /\ connection_status[s]
    /\ \E outcome \in ToolOutcomes :
          IF outcome = "connection error"
          THEN /\ connection_status' = DictSet(connection_status, s, FALSE)
               /\ reconnect_tasks' = ScheduleReconnection(reconnect_tasks, s)
               /\ reconnections' = [reconnections EXCEPT ![s] = <<>>]
          ELSE UNCHANGED bridge_vars
    /\ UNCHANGED <<clock, pc, ra_vars, v2_vars, enh_vars, running, in_flight, simple_vars,
                   idle_vars, last_run, mem_vars>>

InitBridge == Constructed /\ pc = 0

NextBridge ==
    \E s \in Servers :
        \/ ConnectAllServers(s)
        \/ ReconnectLoop(s)
        \/ CallTool(s)

\* MCPConnectionManager after load_configuration
SpecBridge == InitBridge /\ [][NextBridge]_vars

(* recovery-agent.py, the monitoring loop together with the task           *)
(* _idle_testing_loop that start_monitoring creates, for services that     *)
(* answer their probes.  Times are kept as the ages IdleTestingManager     *)
(* compares, each cut off one check_interval above idle_threshold, so that *)
(* the loop runs without end.                                              *)

Saturated(age) == Min(age, idle_threshold + check_interval)

\* is_system_idle
IsSystemIdle(age) == age > idle_threshold

\* the probes that services in working order answer
HealthyOutcomes == { outcome \in ProbeOutcomes : CheckResult(outcome).status = "healthy" }

\* _monitoring_cycle: update_traffic_activity at its start, then one
\* iteration of the loop over config["services"] for each step
IdleMonitorService ==
    /\ pc \in 1..Len(ServiceOrder)
    /\ \E outcome \in HealthyOutcomes, result \in StrategyResults :
          CheckServiceHealth(ServiceOrder[pc], outcome, result)
    /\ pc' = pc + 1
    /\ IF pc = 1
       THEN since_activity' = 0 /\ idle_testing_active' = FALSE
       ELSE UNCHANGED <<since_activity, idle_testing_active>>
    /\ UNCHANGED <<tests_run, no_traffic_for, next_test_in>>
    /\ UNCHANGED <<clock, v2_vars, enh_vars, running, in_flight, simple_vars, bridge_vars,
                   mem_vars>>

\* _monitoring_cycle after the probes and start_monitoring:
\* asyncio.sleep(check_interval), during which the system carries traffic
\* or does not; the sleep of _idle_testing_loop ends first when it is due
IdleSleep ==
    /\ pc = Len(ServiceOrder) + 1
    /\ next_test_in >= check_interval
    /\ pc' = 1
    /\ last_run' = [NoRun EXCEPT !.agent = "ra", !.op = "memory",
                                 !.events = SystemMemoryEntries(services_status, 1)]
    /\ since_activity' = Saturated(since_activity + check_interval)
    /\ next_test_in' = next_test_in - check_interval
    /\ \E carried \in BOOLEAN :
          no_traffic_for' = IF carried THEN 0
                            ELSE Saturated(no_traffic_for + check_interval)
    /\ UNCHANGED <<idle_testing_active, tests_run>>
    /\ UNCHANGED <<clock, ra_vars, v2_vars, enh_vars, running, in_flight, simple_vars,
                   bridge_vars, mem_vars>>

\* _idle_testing_loop, one turn: start_idle_testing when is_system_idle,
\* then asyncio.sleep(test_interval)
IdleTestingLoop ==
    /\ next_test_in < check_interval
    /\ IF IsSystemIdle(since_activity)
       THEN idle_testing_active' = TRUE /\ tests_run' = TRUE
       ELSE UNCHANGED <<idle_testing_active, tests_run>>
    /\ next_test_in' = next_test_in + test_interval
    /\ UNCHANGED <<since_activity, no_traffic_for>>
    /\ UNCHANGED <<clock, pc, ra_vars, v2_vars, enh_vars, running, in_flight, simple_vars,
                   bridge_vars, last_run, mem_vars>>

NextIdle == IdleMonitorService \/ IdleSleep \/ IdleTestingLoop

\* the event loop runs a coroutine that can run
SpecIdle == Init /\ [][NextIdle]_vars /\ WF_vars(NextIdle)

-----------------------------------------------------------------------------
(* Claims settled against recovery-agent.py (Spec) *)

RaFailed == last_run.agent = "ra" /\ last_run.op = "probe" /\ last_run.status = "failed"
RaHealthy == last_run.agent = "ra" /\ last_run.op = "probe" /\ last_run.status = "healthy"

AllStrategiesFailed(tried) ==
    Len(tried) = Len(recovery_strategies) /\ ~Succeeded(tried)

SpecTiers ==
    << "restart_process", "restart_docker_container",
       "full_service_restart", "system_cleanup_and_restart" >>

-----------------------------------------------------------------------------
(* Claims settled against enhanced_recovery_agent_v2.py (SpecV2) *)

V2Probed == last_run.agent = "v2" /\ last_run.op = "probe"

\* C4: while a service is in its cooldown window no recovery attempt is made
\* for it: two recovery attempts for one service are never closer to each other
\* than the cooldown period.
C4_NoAttemptInsideCooldown ==
    \A s \in Services :
        \A i \in 1..(Len(attempted_at[s]) - 1) :
            attempted_at[s][i + 1] - attempted_at[s][i] >= cooldown_period

\* C10 as stated: a probe answered with status 200 records healthy, one
\* answered with any other status records degraded, and one that fails in
\* transport (timeout, refused connection) records unhealthy.
C10_NonOkIsDegraded ==
    V2Probed =>
        last_run.status =
            IF last_run.outcome.kind = "http" /\ last_run.outcome.code = 200
            THEN "healthy"
            ELSE IF last_run.outcome.kind = "http" THEN "degraded"
            ELSE "unhealthy"

\* C10 as amended: a probe answered with status 200 records healthy with no
\* error; every other probe records unhealthy, with the error "HTTP <status>"
\* for another status, "Timeout" for a timeout and the text of the exception
\* for any other failure.  No probe records degraded.
C10_NonOkIsUnhealthy ==
    V2Probed =>
        LET o == last_run.outcome
            h == v2_services[last_run.service]
        IN  /\ h.status = last_run.status
            /\ h.error_message = last_run.error
            /\ (o.kind = "http" /\ o.code = 200) =>
                  h.status = "healthy" /\ h.error_message = <<>>
            /\ (o.kind = "http" /\ o.code # 200) =>
                  h.status = "unhealthy" /\ h.error_message = <<"HTTP", o.code>>
            /\ o.kind = "timeout" =>
                  h.status = "unhealthy" /\ h.error_message = <<"Timeout">>
            /\ o.kind \notin {"http", "timeout"} =>
                  h.status = "unhealthy" /\ h.error_message = <<o.kind>>
            /\ h.status # "degraded"

C10_Witness ==
    /\ V2Probed
    /\ last_run.outcome = [kind |-> "http", code |-> 500]
    /\ v2_services[last_run.service].status = "unhealthy"
    /\ v2_services[last_run.service].error_message = <<"HTTP", 500>>

-----------------------------------------------------------------------------
(* Claims settled against enhanced_recovery_agent.py (SpecEnh) *)

\* C1: the number of recovery attempts recorded for a service never exceeds
\* the configured maximum, whatever sequence of probes and manual recover or
\* restart commands arrives.
C1_AttemptsNeverExceedMax ==
    \A s \in DOMAIN enh_services :
        enh_services[s].recovery_attempts <= config_recovery_attempts

\* C5: a probe that arrives inside the cooldown window of a service's last
\* recovery (the service flapping faster than the cooldown) leaves the
\* service's attempt counter as it was.
C5_NoResetBetweenFlaps ==
    (last_run.agent = "enh" /\ last_run.op = "probe" /\ last_run.in_window) =>
        last_run.after = last_run.before

\* C11: whenever a probe reports a service unhealthy or degraded the service is
\* evaluated for recovery: the monitoring cycle that made the probe goes on
\* (to the remaining probes and to _perform_automated_recovery) and has not
\* ended with the service left unevaluated.
C11_FailingIsEvaluated ==
    (/\ last_run.agent = "enh"
     /\ last_run.op = "probe"
     /\ last_run.status \in {"unhealthy", "degraded"})
        => pc \in 2..(Len(ServiceOrder) + 1)

-----------------------------------------------------------------------------
(* Claims settled against lib/memory-manager.py: the scoring function (SpecRelevance) *)

\* the number of positions of a sequence of texts at which the text contains q
CountContaining(texts, q) ==
    Cardinality({ i \in 1..Len(texts) : Contains(texts[i], q) })

\* the number of metadata values that contain q
CountValuesContaining(metadata, q) ==
    Cardinality({ k \in DOMAIN metadata : Contains(metadata[k], q) })

\* C20 as stated: the relevance score (doubled) of an entry for a query is
\* exactly 10 if the query is a substring of the content, plus 2 for each
\* distinct word shared by query and content, plus 5 for each tag containing
\* the query, plus 3 for each metadata value containing the query, plus 0.5
\* times the importance, the texts compared as they are written.
C20_ScoreAsWritten ==
    (call.fn = "relevance" /\ call.returned) =>
        call.score =
            (IF Contains(call.entry.content, call.query) THEN 20 ELSE 0)
            + 4 * Cardinality(Words(call.query) \cap Words(call.entry.content))
            + 10 * CountContaining(call.entry.tags, call.query)
            + 6 * CountValuesContaining(call.entry.metadata, call.query)
            + call.entry.importance

\* C20 amended: the same sum, every comparison made between the lower-cased
\* query and the lower-cased content, tag or metadata value.
C20_ScoreCaseInsensitive ==
    (call.fn = "relevance" /\ call.returned) =>
        LET q == Lower(call.query)
            lowered(texts) == [i \in 1..Len(texts) |-> Lower(texts[i])]
            lowered_values == [k \in DOMAIN call.entry.metadata |-> Lower(call.entry.metadata[k])]
        IN  call.score =
                (IF Contains(Lower(call.entry.content), q) THEN 20 ELSE 0)
                + 4 * Cardinality(Words(q) \cap Words(Lower(call.entry.content)))
                + 10 * CountContaining(lowered(call.entry.tags), q)
                + 6 * CountValuesContaining(lowered_values, q)
                + call.entry.importance

\* a scored entry whose query is in the content only up to case, shares a word
\* with it, and is in two tags and two metadata values
C20_Witness ==
    /\ call.fn = "relevance"
    /\ call.returned
    /\ call.query = <<"A">>
    /\ call.entry.content = <<"b", " ", "a">>
    /\ call.entry.tags # <<>>
    /\ call.entry.metadata # EmptyDict
    /\ call.entry.importance = 4
    /\ call.score = 20 + 4 + 20 + 12 + 4

-----------------------------------------------------------------------------
(* Claims settled against lib/memory-manager.py: search (SpecSearch) *)

\* C19: the results of a search are ordered by relevance score descending,
\* then by importance descending, and results still tied are ordered by
\* recency, the newest first.
C19_TiesNewestFirst ==
    call.fn = "search_memory" =>
        \A i, j \in 1..Len(call.results) :
            i < j =>
                \/ call.results[i].relevance_score > call.results[j].relevance_score
                \/ /\ call.results[i].relevance_score = call.results[j].relevance_score
                   /\ call.results[i].importance > call.results[j].importance
                \/ /\ call.results[i].relevance_score = call.results[j].relevance_score
                   /\ call.results[i].importance = call.results[j].importance
                   /\ call.results[i].timestamp >= call.results[j].timestamp

\* the query occurs in what was appended: in the content, in a tag or in a
\* metadata value of the entry
Mentions(entry, query) ==
    \/ Contains(entry.content, query)
    \/ CountContaining(entry.tags, query) > 0
    \/ CountValuesContaining(entry.metadata, query) > 0

\* the result is the stored form of an appended entry that mentions the query
ResultMentions(result, query) ==
    \E m \in 1..Len(acked) : acked[m].id = result.entry_id /\ Mentions(acked[m], query)

\* C18: after an append, a search whose query is an exact substring of the
\* appended content returns that entry, and no entry that does not contain the
\* query has a higher relevance score. Stated for searches without a type
\* filter, over the entity of the entry, whose result list the limit did not cut.
C18_AppendedIsFoundOnTop ==
    (call.fn = "search_memory" /\ call.memory_type = None
        /\ Len(call.results) < call.limit) =>
        \A n \in 1..Len(acked) :
            (/\ call.entity \in {None, acked[n].entity}
             /\ Contains(acked[n].content, call.query)) =>
                \E i \in 1..Len(call.results) :
                    /\ call.results[i].entry_id = acked[n].id
                    /\ \A j \in 1..Len(call.results) :
                          ~ResultMentions(call.results[j], call.query) =>
                              call.results[i].relevance_score >= call.results[j].relevance_score

\* the acknowledged appends of an entity, in the order they were issued
AckedOf(entity) == SelectSeq(acked, LAMBDA entry : entry.entity = entity)

\* the fields the round trip is to preserve
SameFields(parsed, written) ==
    /\ parsed.memory_type = written.memory_type
    /\ parsed.tags = written.tags
    /\ parsed.metadata = written.metadata
    /\ parsed.importance = written.importance

\* C15: round trip: the N entries written to the storage of an entity are
\* parsed back as exactly N entries with the same type, tags, metadata and
\* importance as were written.
C15_RoundTrip ==
    \A entity \in DOMAIN files :
        LET parsed == ParseMarkdownEntries(files[entity], ledger_now)
            written == AckedOf(entity)
        IN  /\ Len(parsed) = Len(written)
            /\ \A n \in 1..Len(written) : SameFields(parsed[n], written[n])

\* the ids of the results of a search
ResultIds(results) == { results[i].entry_id : i \in 1..Len(results) }

\* C12: durability: every entry whose update_memory returned is observed by
\* a reader of the same storage, also by an instance created after a restart:
\* a search over all entities, without type filter and not cut by the limit,
\* finds every acknowledged entry, and get_memory_stats reports as many
\* entries as were acknowledged.
C12_AckedAreObserved ==
    /\ (call.fn = "search_memory" /\ call.entity = None /\ call.memory_type = None
           /\ Len(call.results) < call.limit) =>
           \A n \in 1..Len(acked) : acked[n].id \in ResultIds(call.results)
    /\ call.fn = "get_memory_stats" => call.total_entries = Len(acked)

-----------------------------------------------------------------------------
(* Claims settled against lib/memory-manager.py: sweeps and restarts (SpecLedger) *)

\* the entry is in the storage of its entity: its id is in a header of the file
Stored(entry) ==
    /\ entry.entity \in DOMAIN files
    /\ Contains(files[entry.entity], <<"[ID:", " ", entry.id, "]">>)

\* C16: cleanup_old_memories(days) removes every entry older than days whose
\* importance is below 4 and retains every entry whose importance is 4 or more
\* whatever its age.
C16_SweepByAgeAndImportance ==
    call.fn = "cleanup_old_memories" =>
        \A n \in 1..Len(acked) :
            /\ (/\ acked[n].timestamp <= ledger_now - call.days * DayLength
                /\ acked[n].importance < 4) => ~Stored(acked[n])
            /\ acked[n].importance >= 4 => Stored(acked[n])

\* the entry is in the storage of its entity as update_memory wrote it
Intact(entry) ==
    /\ entry.entity \in DOMAIN files
    /\ Contains(files[entry.entity], EntryBlock(entry))

\* C17: entries are immutable once written and a history only grows: an entry
\* that is in storage as it was written stays so at every step, except that an
\* explicit retention sweep may remove it.
C17_EntriesImmutable ==
    [][\A n \in 1..Len(acked) :
          Intact(acked[n]) =>
              \/ Intact(acked[n])'
              \/ call'.fn = "cleanup_old_memories" /\ ~Stored(acked[n])']_vars

-----------------------------------------------------------------------------
(* Claims settled against lib/memory-manager.py: concurrent callers (SpecWriters) *)

\* C13: concurrent appends to one entity serialize: whatever the interleaving
\* of the update_memory calls, the first writes that create the entity
\* included, the file of the entity holds every acknowledged entry exactly
\* once and whole.
C13_AckedOnceAndWhole ==
    \A n \in 1..Len(acked) :
        /\ acked[n].entity \in DOMAIN files
        /\ Cardinality(Occurrences(files[acked[n].entity], EntryBlock(acked[n]))) = 1

\* the times at which a call can have been issued
CallTimes == 0..(MaxCalls - 1)

\* the histories an entity can have: for a set of call times, the entries of
\* calls made for the entity at those times, in the order of the calls
Histories(entity) ==
    LET requests == { request \in WriterRequests : request.entity = entity }
    IN  UNION { { [n \in 1..Cardinality(times) |->
                     NewEntry(choice[SortedSeq(times)[n]], SortedSeq(times)[n])] :
                  choice \in [times -> requests] } :
                times \in SUBSET CallTimes }

\* what a file holds before its entries: the header of the call that created
\* it, or nothing while the header is still in the buffer of its handle
FileStarts(entity) == {<<>>} \cup { EntityFileHeader(entity, time) : time \in CallTimes }

\* the text of a history
HistoryText(history) == Flatten([n \in 1..Len(history) |-> EntryBlock(history[n])])

\* C14: under concurrent writers appending to different entities, the file of
\* an entity holds exactly the appends of that entity in the order they were
\* issued, every acknowledged one among them, with no block of another entity
\* and no block cut or lost. An entity is meant whose own calls were made one
\* after the other.
C14_OwnHistoryInOrder ==
    \A entity \in (DOMAIN files) \ contended :
        \E history \in Histories(entity) :
            /\ \E start \in FileStarts(entity) :
                  files[entity] = start \o HistoryText(history)
            /\ \A n \in 1..Len(acked) :
                  acked[n].entity = entity =>
                      \E m \in 1..Len(history) : history[m] = acked[n]

\* two calls for different entities have run at once, the one issued later
\* returning first, and both files hold their own entry after their header
C14_Witness ==
    /\ Len(acked) = 2
    /\ acked[1].entity # acked[2].entity
    /\ acked[1].timestamp > acked[2].timestamp
    /\ contended = {}
    /\ \A n \in 1..2 :
          files[acked[n].entity] =
              EntityFileHeader(acked[n].entity, acked[n].timestamp) \o EntryBlock(acked[n])

-----------------------------------------------------------------------------
(* Claims settled against lib/memory-manager.py: the derived importance (SpecImportance) *)

\* one of the words is in the content, whatever the case of its letters
HasKeyword(content, words) ==
    \E i \in 1..Len(content) : KeywordsIn(LowerAtom(content[i])) \cap words # {}

\* the cascade of the derivation for given lists of keywords
ImportanceCascade(content, memory_type, severity, failure, notice) ==
    IF HasKeyword(content, severity) THEN 5
    ELSE IF memory_type \in {"error", "recovery"} \/ HasKeyword(content, failure) THEN 4
    ELSE IF memory_type \in {"warning", "decision"} \/ HasKeyword(content, notice) THEN 3
    ELSE IF memory_type \in {"success", "monitoring"} THEN 2
    ELSE 1

\* C21: the derived importance is an integer from 1 to 5: 5 for the severity
\* keywords critical, fatal, crash, otherwise 4 for the types error and
\* recovery or a failure keyword, otherwise 3 for the types warning and
\* decision or the keywords alert, changed, otherwise 2 for the types success
\* and monitoring, otherwise 1.
C21_ImportanceAsWritten ==
    (call.fn = "determine_importance" /\ call.returned) =>
        /\ call.importance \in 1..5
        /\ call.importance =
              ImportanceCascade(call.content, call.memory_type,
                                {"critical", "fatal", "crash"},
                                {"failed", "timeout", "restart"},
                                {"alert", "changed"})

\* C21 amended: the same cascade with emergency among the severity keywords
\* and updated among the keywords of level 3, a keyword counting wherever it
\* is a substring of the lower-cased content.
C21_ImportanceDerived ==
    (call.fn = "determine_importance" /\ call.returned) =>
        /\ call.importance \in 1..5
        /\ call.importance =
              ImportanceCascade(call.content, call.memory_type,
                                {"critical", "emergency", "fatal", "crash"},
                                {"failed", "timeout", "restart"},
                                {"alert", "changed", "updated"})

\* a success entry whose content has a failure keyword in capitals and a
\* level-3 keyword: the failure keyword decides
C21_Witness ==
    /\ call.fn = "determine_importance"
    /\ call.returned
    /\ call.memory_type = "success"
    /\ call.content = <<"updated", "FAILED">>
    /\ call.importance = 4

\* the number of acknowledged entries of each memory type
AckedTypes ==
    [t \in { acked[n].memory_type : n \in 1..Len(acked) } |->
        Cardinality({ n \in 1..Len(acked) : acked[n].memory_type = t })]

\* C22: after any sequence of appends the stats report a total equal to the
\* number of entries appended, an entity count equal to the number of
\* entities written and per-type counts equal to the number of stored entries
\* of each type. Stated for an instance whose index is loaded.
C22_StatsCountAppends ==
    (call.fn = "get_memory_stats" /\ ~loading) =>
        /\ call.total_entries = Len(acked)
        /\ call.entities_count = Cardinality({ acked[n].entity : n \in 1..Len(acked) })
        /\ call.memory_types = AckedTypes

\* C23: a failure raised while one service is recovered never aborts the
\* cycle for the other services: every service that is failing and may be
\* recovered when the recovery pass of a cycle begins has its recovery run in
\* that pass.
C23_FailureIsIsolated ==
    (last_run.agent = "v2" /\ last_run.op = "recover") =>
        last_run.eligible \subseteq last_run.called

-----------------------------------------------------------------------------
(* Claims settled against the coroutines of enhanced_recovery_agent_v2.py  *)
(* (SpecV2Tasks)                                                           *)

\* C24: at most one recovery attempt is in flight for a service at any time,
\* a restart command issued while the monitoring loop is recovering that
\* service included.
C24_OneRestartPerService ==
    \A s \in Services : Cardinality(Restarting(s)) <= 1

\* C25: the number of recovery actions running at the same time, over all
\* services, never exceeds max_concurrent_recoveries.
C25_AtMostMaxConcurrent ==
    Cardinality({ c \in Callers : in_flight[c] # NoRestart }) <= max_concurrent_recoveries

-----------------------------------------------------------------------------
(* Claims settled against the shutdown of recovery-agent.py (SpecInterrupt) *)

-----------------------------------------------------------------------------
(* Claims settled against recovery-agent.py with commands that do not end  *)
(* (SpecHang)                                                              *)

-----------------------------------------------------------------------------
(* Claims settled against the notifications of recovery-agent.py (Spec) *)

-----------------------------------------------------------------------------
(* Claims settled against the ledger writes of enhanced_recovery_agent_v2.py *)
(* (SpecV2)                                                                  *)

\* C29: a ledger write failure is never silently dropped: when an append of
\* the cycle cannot be written the failure is logged, the cycle goes on to
\* its remaining work, and no record of the cycle is left out without a
\* report of its own.
C29_NoRecordSilentlyDropped ==
    (last_run.agent = "v2" /\ last_run.op = "memory") =>
        /\ last_run.memory.failed # <<>> => last_run.memory.logged
        /\ last_run.memory.skipped = <<>>
        /\ pc = Len(ServiceOrder) + 3

\* C30: a restart through the tool bridge and a recovery through local
\* control follow one contract: whichever path a recovery pass takes, every
\* recovery it makes starts the cooldown of the service (last_recovery is the
\* time of the attempt) and is recorded in the ledger.
C30_BothPathsUpdateAlike ==
    (last_run.agent = "v2" /\ last_run.op = "recover") =>
        \A s \in last_run.called \ last_run.raised :
            /\ v2_services[s].last_recovery = <<clock>>
            /\ s \in last_run.recorded

-----------------------------------------------------------------------------
(* Claims settled against enhanced_recovery_agent.py: cooldown (SpecEnhRecovery) *)

\* a recovery of the service was made less than cooldown_period ago: one of
\* its cooldown entries has not expired
EnhCoolingDown(cooldowns, s, now) ==
    \E k \in DOMAIN cooldowns : k[1] = s /\ now < cooldowns[k]

-----------------------------------------------------------------------------
(* Claims settled against enhanced_recovery_agent.py: the probe (SpecEnh) *)

\* the recovery state the agent keeps for a service: attempt count and time
\* of the last attempt
EnhRecoveryState(services, s) ==
    IF s \in DOMAIN services
    THEN [recovery_attempts |-> services[s].recovery_attempts,
          last_recovery |-> services[s].last_recovery]
    ELSE [recovery_attempts |-> 0, last_recovery |-> <<>>]

\* C32: a health probe has no side effect beyond its network call and the
\* observation it returns: a probe step leaves the attempt count and the
\* last-attempt time of every service as they were.
C32_ProbeLeavesRecoveryState ==
    [][(last_run'.agent = "enh" /\ last_run'.op = "probe") =>
          \A s \in Services :
              EnhRecoveryState(enh_services', s) = EnhRecoveryState(enh_services, s)]_vars

-----------------------------------------------------------------------------
(* Claims settled against the health records of enhanced_recovery_agent_v2.py *)
(* (SpecV2)                                                                   *)

\* _update_local_memory: the entity argument of the update_memory call that
\* writes the record
RecordEntity(record) ==
    IF record \in Services THEN "service_health" ELSE "recovery_stats"

\* C33: every health observation, whatever its status, is also appended to
\* the ledger as an entry stored under the name of the probed service: after
\* the memory update of a cycle, each service that has an observation has a
\* written record whose entity is the service.
C33_ObservationStoredUnderService ==
    (last_run.agent = "v2" /\ last_run.op = "memory") =>
        \A s \in DOMAIN v2_services :
            \E i \in 1..Len(last_run.memory.written) :
                RecordEntity(last_run.memory.written[i]) = s


\* the place of a ledger entry in the course of an incident: the failing
\* observation, the recovery attempt, its outcome
EntryRank(e) ==
    CASE e.entry = "observation" -> 1
      [] e.entry = "attempt" -> 2
      [] e.entry = "outcome" -> 3
      [] OTHER -> 0

\* C34: within one service's incident the ledger entries are written in the
\* order the events occurred, the failing observation first, then the
\* recovery attempt, then its outcome: of two entries a cycle writes about
\* one service, the earlier one is not about a later event.
C34_EntriesInEventOrder ==
    (last_run.agent = "v2" /\ last_run.op = "memory") =>
        \A i, j \in 1..Len(last_run.events) :
            (/\ i < j
             /\ last_run.events[i].service = last_run.events[j].service
             /\ last_run.events[i].service \in last_run.called)
                => EntryRank(last_run.events[i]) <= EntryRank(last_run.events[j])

-----------------------------------------------------------------------------
(* Claims settled against the ledger writes of recovery-agent.py (Spec) *)

\* the ledger entry records the call of the strategy and its success flag
RecordsStrategy(e, tried) ==
    /\ e.entry = "strategy"
    /\ e.strategy = tried.strategy
    /\ e.success = tried.success

-----------------------------------------------------------------------------
(* Claims settled against simple-recovery-agent.py (SpecSimple) *)

\* C36: each recovery attempt that is suppressed because the service is
\* within its cooldown window is recorded in the ledger: the handler that
\* returns for the cooldown has written an entry noting the suppressed
\* attempt for the service.
C36_SuppressedAttemptRecorded ==
    (last_run.agent = "simple" /\ last_run.op = "cooldown") =>
        \E i \in 1..Len(last_run.events) :
            /\ last_run.events[i].entry = "suppressed"
            /\ last_run.events[i].service = last_run.service

-----------------------------------------------------------------------------
(* Claims settled against the notification delivery of recovery-agent.py   *)
(* (SpecNotify)                                                            *)

StoredIds(fs, entity, time) ==
    LET entries == ParseMarkdownEntries(fs[entity], time)
    IN  [n \in 1..Len(entries) |-> entries[n].id]

Quiescent == ~loading /\ InFlight = {}

\* C38: at every quiescent point (no load of the index and no update_memory
\* under way) memory_index lists, for every entity that has a file, exactly
\* the ids of the entries stored in the file, each once and in file order,
\* and lists no entity that has no file
C38_IndexListsStoredEntries ==
    Quiescent =>
        /\ \A entity \in DOMAIN files :
              IndexIds(memory_index, entity) = StoredIds(files, entity, ledger_now)
        /\ \A n \in 1..Len(memory_index) : memory_index[n].key \in DOMAIN files


\* C39: after a connection failure the reconnections to a server are at
\* most retry_attempts, the k-th (from 0) made after a delay of
\* retry_delay * 2^k, and when all of them have failed no reconnection task
\* is left waiting
C39_ReconnectionBounded ==
    \A s \in Servers :
        /\ Len(reconnections[s]) <= retry_attempts
        /\ \A k \in 1..Len(reconnections[s]) :
              reconnections[s][k] = retry_delay * 2 ^ (k - 1)
        /\ (Len(reconnections[s]) = retry_attempts /\ ~connection_status[s])
              => ~IsSleeping(reconnect_tasks, s)


====
